---- MODULE Spec2Model ----
(***************************************************************************)
(* NO3SYS: curvature-gated fork selection (no3sys/core/curvature.py,       *)
(* no3sys/core/fork.py) and the InfiniGen self-evolution controller        *)
(* (no3sys/core/infini_gen.py).                                            *)
(*                                                                         *)
(* Python floats are modelled as exact rationals <<n, d>> in lowest terms  *)
(* with d > 0, so that equality of values is equality of tuples.  Rounding *)
(* of IEEE doubles is not modelled.  Timestamps are left out.              *)
(***************************************************************************)
EXTENDS Integers, Sequences, FiniteSets, TLC

VARIABLES
    \* ---- curvature.py: one call of ethical_gate / select_best_fork ----
    forks,          \* the batch handed to select_best_fork (a sequence of Fork)
    sel_kappa_max,  \* the kappa_max argument of that call
    gate_out,       \* outcome of the last ethical_gate call, or NoCall
    best_out,       \* outcome of the last select_best_fork call, or NoCall
    forks_in,       \* the batch as it was passed in (for the frame condition)
    \* ---- infini_gen.py: InfiniGen fields ----
    params,               \* self.params (the live CognitiveParameters)
    kappa_max,            \* self.kappa_max
    generation,           \* self.generation
    history,              \* self.history (sequence of EvolutionRecord)
    performance_baseline, \* self.performance_baseline
    rollback_stack,       \* self.rollback_stack (oldest first)
    mutable_order,        \* list(self._mutable_params)[:5], fixed per process
    \* ---- infini_gen.py: locals of a running evolve() ----
    pc,                   \* "idle" | "test" | "deploy"
    current_performance,
    candidates,           \* the list returned by hypothesize()
    cand_i,               \* index of the next candidate of the for loop
    best_mutation,        \* None or a candidate
    best_improvement,
    \* ---- observation of the calls made so far ----
    params_at_call,       \* self.params as of the entry of the current/last evolve()
    pre_params,           \* params at entry of each evolve() not yet rolled back
    undone,               \* params at entry of the evolve() the last rollback() undid
    rollback_out,         \* return value of the last rollback(), or NoCall
    rollbacks,            \* number of rollback() calls made
    api_out,              \* the last direct call or read of the controller, or NoCall
    fork_outcomes_at_call, \* the fork_outcomes argument of the current/last evolve()
    params_id,            \* identity of the object self.params refers to
    stack_ids,            \* identities of the objects on self.rollback_stack
    \* ---- validator.py: TemporalValidator and the forks handed to it ----
    vforks,                \* the forks, each with its validation (self._all_forks)
    validation_records,    \* self.validation_records
    curvature_outcome_log, \* self.curvature_outcome_log
    val_out,               \* result of the last validator call, or NoCall
    validate_calls,        \* number of validate_fork() calls made
    \* ---- system.py: NO3SYS ----
    auto_evolve,           \* self.auto_evolve
    triangle_fork_depth,   \* self.triangle.fork_depth
    circle_alpha,          \* self.circle.alpha
    cycle_count,           \* self._cycle_count
    pending_validations,   \* self._pending_validations: fork id -> position in vforks
    sys_pc,                \* "idle" | "evolving": inside phase 9 of process()
    sys_out                \* result of the last NO3SYS / curvature call, or NoCall

vars == <<forks, sel_kappa_max, gate_out, best_out, forks_in,
          params, kappa_max, generation, history, performance_baseline,
          rollback_stack, mutable_order, pc, current_performance, candidates,
          cand_i, best_mutation, best_improvement, params_at_call, pre_params,
          undone, rollback_out, rollbacks, api_out, fork_outcomes_at_call,
          params_id, stack_ids,
          vforks, validation_records, curvature_outcome_log, val_out,
          validate_calls, auto_evolve, triangle_fork_depth, circle_alpha,
          cycle_count, pending_validations, sys_pc, sys_out>>

selVars == <<forks, sel_kappa_max, gate_out, best_out, forks_in>>

ctlVars == <<params, kappa_max, generation, history, performance_baseline,
             rollback_stack, mutable_order, pc, current_performance, candidates,
             cand_i, best_mutation, best_improvement, params_at_call, pre_params,
             undone, rollback_out, rollbacks, api_out, fork_outcomes_at_call,
             params_id, stack_ids>>

valVars == <<vforks, validation_records, curvature_outcome_log, val_out,
             validate_calls>>

sysVars == <<auto_evolve, triangle_fork_depth, circle_alpha, cycle_count,
             pending_validations, sys_pc, sys_out>>

----------------------------------------------------------------------------
(* Exact rational arithmetic standing for Python float arithmetic.         *)

RECURSIVE GCD(_, _)
GCD(a, b) == IF b = 0 THEN a ELSE GCD(b, a % b)

Abs(n) == IF n < 0 THEN -n ELSE n

\* The rational n/d (d # 0) in lowest terms with a positive denominator.
Rat(n, d) ==
    LET g == GCD(Abs(n), Abs(d))
        s == IF d < 0 THEN -1 ELSE 1
    IN  <<(s * n) \div g, (s * d) \div g>>

RInt(n) == <<n, 1>>
\* The sums, products and comparisons divide by the common factors before
\* they multiply, which keeps the intermediate integers small; the values are
\* those of the schoolbook formulas.
RAdd(x, y) ==
    LET g == GCD(x[2], y[2])
    IN  Rat(x[1] * (y[2] \div g) + y[1] * (x[2] \div g), (x[2] \div g) * y[2])
RSub(x, y) == RAdd(x, <<-y[1], y[2]>>)
RMul(x, y) ==
    LET g == GCD(Abs(x[1]), y[2])
        h == GCD(Abs(y[1]), x[2])
    IN  Rat((x[1] \div g) * (y[1] \div h), (x[2] \div h) * (y[2] \div g))
RDiv(x, y) == RMul(x, IF y[1] < 0 THEN <<-y[2], -y[1]>> ELSE <<y[2], y[1]>>)
RLt(x, y) ==
    LET g == GCD(x[2], y[2])
    IN  x[1] * (y[2] \div g) < y[1] * (x[2] \div g)
RLe(x, y) ==
    LET g == GCD(x[2], y[2])
    IN  x[1] * (y[2] \div g) <= y[1] * (x[2] \div g)
RAbs(x) == <<Abs(x[1]), x[2]>>
\* np.clip(x, lo, hi)
RClip(x, lo, hi) == IF RLt(x, lo) THEN lo ELSE IF RLt(hi, x) THEN hi ELSE x

NoCall == [status |-> "none"]
None == [none |-> TRUE]

----------------------------------------------------------------------------
(* fork.py                                                                 *)

\* tests/test_curvature.py make_fork: the forks the selection is driven with.
make_fork(curvature, confidence) ==
    [curvature |-> curvature, confidence |-> confidence,
     affective_state |-> [trust |-> Rat(7, 10), fear |-> Rat(1, 10),
                          urgency |-> Rat(3, 10), satisfaction |-> Rat(7, 10),
                          frustration |-> Rat(1, 10)],
     predictive_vector |-> [risk |-> Rat(2, 10), reward |-> Rat(8, 10),
                            volatility |-> Rat(2, 10), stability |-> Rat(8, 10)]]

\* Fork.score()
score(f) ==
    LET a == f.affective_state
        p == f.predictive_vector
        affect_score ==
            RDiv(RSub(RSub(RAdd(a.trust, a.satisfaction), a.fear), a.frustration),
                 RInt(4))
        predict_score ==
            RDiv(RSub(RSub(RAdd(p.reward, p.stability), p.risk), p.volatility),
                 RInt(4))
        curvature_penalty == RMul(f.curvature, Rat(3, 10))
    IN  RSub(RAdd(RAdd(f.confidence, RMul(affect_score, Rat(3, 10))),
                  RMul(predict_score, Rat(3, 10))),
             curvature_penalty)

----------------------------------------------------------------------------
(* curvature.py                                                            *)

\* Variant: the gate with <= in place of <.
ethical_gate_le(fork, k) == RLe(fork.curvature, k)

\* ethical_gate(fork, kappa_max): fork.curvature < kappa_max
ethical_gate(fork, k) == RLt(fork.curvature, k)

\* [f for f in forks if ethical_gate(f, kappa_max)], as indices into fs.
RECURSIVE GatedFrom(_, _, _)
GatedFrom(fs, k, i) ==
    IF i > Len(fs) THEN <<>>
    ELSE (IF ethical_gate(fs[i], k) THEN <<i>> ELSE <<>>) \o GatedFrom(fs, k, i + 1)

gated(fs, k) == GatedFrom(fs, k, 1)

\* Python's min(seq, key=curvature) over the indices idx (non-empty), scanning
\* left to right and replacing the running minimum only on a strictly
\* smaller key: the first minimal element wins.
RECURSIVE MinScan(_, _, _, _)
MinScan(fs, idx, j, cur) ==
    IF j > Len(idx) THEN cur
    ELSE MinScan(fs, idx, j + 1,
                 IF RLt(fs[idx[j]].curvature, fs[cur].curvature) THEN idx[j] ELSE cur)

\* Variant: the fallback taking max() in place of min().
PyMaxCurvature(fs, idx) ==
    CHOOSE i \in {idx[j] : j \in 1..Len(idx)} :
        \A j \in 1..Len(idx) : RLe(fs[idx[j]].curvature, fs[i].curvature)

PyMinCurvature(fs, idx) == MinScan(fs, idx, 2, idx[1])

\* Python's max(seq, key=score): the first maximal element wins.
RECURSIVE MaxScan(_, _, _, _)
MaxScan(fs, idx, j, cur) ==
    IF j > Len(idx) THEN cur
    ELSE MaxScan(fs, idx, j + 1,
                 IF RLt(score(fs[cur]), score(fs[idx[j]])) THEN idx[j] ELSE cur)

\* Variant: a max() whose last maximal element wins.
RECURSIVE MaxScanLast(_, _, _, _)
MaxScanLast(fs, idx, j, cur) ==
    IF j > Len(idx) THEN cur
    ELSE MaxScanLast(fs, idx, j + 1,
                     IF RLe(score(fs[cur]), score(fs[idx[j]])) THEN idx[j] ELSE cur)

PyMaxScoreLast(fs, idx) == MaxScanLast(fs, idx, 2, idx[1])

PyMaxScore(fs, idx) == MaxScan(fs, idx, 2, idx[1])

AllIdx(fs) == [i \in 1..Len(fs) |-> i]

\* Variant: select_best_fork without the fallback branch.
select_best_fork_nofallback(fs, k) ==
    IF gated(fs, k) = <<>>
    THEN [status |-> "raised"]
    ELSE [status |-> "returned", idx |-> PyMaxScore(fs, gated(fs, k))]

\* select_best_fork(forks, kappa_max).  min() of an empty list raises
\* ValueError; no other statement of the function can raise.
select_best_fork(fs, k) ==
    IF gated(fs, k) = <<>>
    THEN IF fs = <<>>
         THEN [status |-> "raised"]
         ELSE [status |-> "returned", idx |-> PyMinCurvature(fs, AllIdx(fs))]
    ELSE [status |-> "returned", idx |-> PyMaxScore(fs, gated(fs, k))]

----------------------------------------------------------------------------
(* infini_gen.py: CognitiveParameters                                      *)

\* CognitiveParameters(): the dataclass defaults.
DefaultParams ==
    [deductive_weight |-> Rat(40, 100), inductive_weight |-> Rat(35, 100),
     abductive_weight |-> Rat(25, 100),
     vector_search_weight |-> Rat(60, 100), graph_search_weight |-> Rat(40, 100),
     trust_weight |-> Rat(30, 100), fear_weight |-> Rat(20, 100),
     urgency_weight |-> Rat(15, 100), satisfaction_weight |-> Rat(25, 100),
     frustration_weight |-> Rat(10, 100),
     forecast_horizon |-> 5, risk_tolerance |-> Rat(30, 100),
     fork_depth |-> 3, kappa_max |-> Rat(80, 100),
     alpha |-> Rat(1, 100)]

\* The fields whose value is a Python int; every other field is a float.
IntParams == {"forecast_horizon", "fork_depth"}

\* InfiniGen._mutable_params
mutable_params ==
    {"deductive_weight", "inductive_weight", "abductive_weight",
     "vector_search_weight", "graph_search_weight",
     "trust_weight", "fear_weight", "urgency_weight",
     "satisfaction_weight", "frustration_weight",
     "risk_tolerance", "alpha", "fork_depth", "forecast_horizon"}

\* normalize_reasoning_weights() that leaves abductive_weight out of the rescaling.
normalize_reasoning_weights_partial(p) ==
    LET total == RAdd(RAdd(p.deductive_weight, p.inductive_weight), p.abductive_weight)
    IN  IF RLt(RInt(0), total)
        THEN [p EXCEPT !.deductive_weight = RDiv(@, total),
                       !.inductive_weight = RDiv(@, total)]
        ELSE p

\* CognitiveParameters.normalize_reasoning_weights
normalize_reasoning_weights(p) ==
    LET total == RAdd(RAdd(p.deductive_weight, p.inductive_weight), p.abductive_weight)
    IN  IF RLt(RInt(0), total)
        THEN [p EXCEPT !.deductive_weight = RDiv(@, total),
                       !.inductive_weight = RDiv(@, total),
                       !.abductive_weight = RDiv(@, total)]
        ELSE p

\* CognitiveParameters.normalize_retrieval_weights
normalize_retrieval_weights(p) ==
    LET total == RAdd(p.vector_search_weight, p.graph_search_weight)
    IN  IF RLt(RInt(0), total)
        THEN [p EXCEPT !.vector_search_weight = RDiv(@, total),
                       !.graph_search_weight = RDiv(@, total)]
        ELSE p

----------------------------------------------------------------------------
(* infini_gen.py: InfiniGen                                                *)

\* len(self.rollback_stack) > 10
MaxStack == 10

\* for param_name in list(self._mutable_params)[:5]
MaxCandidates == 5

\* dict.get(key, default)
Get(d, key, default) == IF key \in DOMAIN d THEN d[key] ELSE default

RECURSIVE RSum(_)
RSum(s) == IF s = <<>> THEN RInt(0) ELSE RAdd(Head(s), RSum(Tail(s)))

\* The scores list built by the loop of observe().
RECURSIVE observe_scores(_)
observe_scores(fork_outcomes) ==
    IF fork_outcomes = <<>> THEN <<>>
    ELSE LET outcome == Head(fork_outcomes)
             delta == Get(outcome, "delta", <<>>)
             accuracy == Get(delta, "sentiment_accuracy", Rat(1, 2))
             risk_error == RAbs(Get(delta, "risk_error", RInt(0)))
             reward_error == RAbs(Get(delta, "reward_error", RInt(0)))
             sc == RSub(accuracy, RMul(RAdd(risk_error, reward_error), Rat(1, 2)))
         IN  (IF Get(outcome, "validated", FALSE) THEN <<sc>> ELSE <<>>)
             \o observe_scores(Tail(fork_outcomes))

\* observe() with 0.0 as the value of an input without validated records.
observe_zero_default(fork_outcomes, baseline) ==
    LET scores == observe_scores(fork_outcomes)
    IN  IF scores = <<>> THEN RInt(0)
        ELSE RDiv(RSum(scores), RInt(Len(scores)))

\* InfiniGen.observe
observe(fork_outcomes, baseline) ==
    IF fork_outcomes = <<>> THEN baseline
    ELSE LET scores == observe_scores(fork_outcomes)
         IN  IF scores # <<>> THEN RDiv(RSum(scores), RInt(Len(scores)))
             ELSE baseline

\* One candidate of hypothesize() for param_name, given the values the two
\* rng calls returned: draw.delta (rng.normal / rng.integers) and draw.ei
\* (rng.uniform).
hypothesize_one(p, param_name, draw) ==
    IF param_name \in IntParams
    THEN [name |-> param_name,
          new_val |-> IF p[param_name] + draw.delta > 1
                      THEN p[param_name] + draw.delta ELSE 1,
          ei |-> draw.ei]
    ELSE [name |-> param_name,
          new_val |-> RClip(RAdd(p[param_name], draw.delta), Rat(1, 100), RInt(1)),
          ei |-> draw.ei]

\* hypothesize() over a whitelist that also holds kappa_max, iterated first.
hypothesize_with_kappa(p, order, draws) ==
    [i \in 1..Len(order) |->
        hypothesize_one(p, IF i = 1 THEN "kappa_max" ELSE order[i], draws[i])]

\* InfiniGen.hypothesize: one candidate per name of the first five names of
\* the whitelist's iteration order.
hypothesize(p, order, draws) ==
    [i \in 1..Len(order) |-> hypothesize_one(p, order[i], draws[i])]

\* InfiniGen._compute_mutation_curvature
compute_mutation_curvature(p) ==
    LET tension ==
            RAdd(RAdd(RMul(RMul(p.risk_tolerance, RSub(RInt(1), p.fear_weight)),
                           Rat(4, 10)),
                      RMul(RSub(RInt(1), p.deductive_weight), Rat(3, 10))),
                 RMul(RMul(p.alpha, RInt(2)), Rat(3, 10)))
    IN  RClip(tension, RInt(0), RInt(2))

\* test_params = copy.deepcopy(self.params); setattr(test_params, name, val)
test_params(p, name, val) == [p EXCEPT ![name] = val]

\* Variant: test_params aliasing self.params (no deepcopy).
live_after_test_alias(p, name, val) == [p EXCEPT ![name] = val]

\* self.params after one iteration of the test loop: the deep copy keeps
\* the trial value away from the live object.
live_after_test(p, name, val) == p

\* mutation_curvature >= self.kappa_max
rejects(p, c, k) == RLe(k, compute_mutation_curvature(test_params(p, c.name, c.new_val)))

\* Variant: >= in place of >.
improves_ge(ei, best) == RLe(best, ei)

\* expected_improvement > best_improvement
improves(ei, best) == RLt(best, ei)

\* Variant: the increment left out.
next_generation_same(g) == g

\* self.generation += 1
next_generation(g) == g + 1

\* Variant: the snapshot pushed without copy.deepcopy, the live object itself.
snapshot_id_alias(live_id, gen) == live_id

\* The identity of the object copy.deepcopy(self.params) returns: a new
\* object, named by the generation whose evolve() made it (the object
\* InfiniGen.__init__ made is 0).
snapshot_id(live_id, gen) == gen

\* The values of the objects on the stack after a write of value to the
\* object target_id: an object reachable under two names shows the write
\* under both.
write_through(stack, ids, target_id, value) ==
    [i \in 1..Len(stack) |-> IF ids[i] = target_id THEN value ELSE stack[i]]

\* Variant: pop() in place of pop(0) on overflow.
push_snapshot_evict_newest(stack, p) ==
    IF Len(stack) + 1 > MaxStack THEN stack ELSE Append(stack, p)

\* self.rollback_stack.append(copy.deepcopy(self.params));
\* if len(self.rollback_stack) > 10: self.rollback_stack.pop(0)
push_snapshot(stack, p) ==
    LET s == Append(stack, p)
    IN  IF Len(s) > MaxStack THEN Tail(s) ELSE s

\* Variant: pop(0) in place of pop().
pop_snapshot_oldest(stack) == [value |-> Head(stack), rest |-> Tail(stack)]

\* self.rollback_stack.pop(): the last element and the list without it.
pop_snapshot(stack) ==
    [value |-> stack[Len(stack)], rest |-> SubSeq(stack, 1, Len(stack) - 1)]

\* Variant: the deployment without the two normalize calls.
deploy_without_normalize(p, m) == [p EXCEPT ![m.name] = m.new_val]

\* setattr(self.params, name, val); normalize_reasoning_weights();
\* normalize_retrieval_weights()
deploy(p, m) ==
    normalize_retrieval_weights(
        normalize_reasoning_weights([p EXCEPT ![m.name] = m.new_val]))

EvolutionRecord(gen, type, name, old, new, ei, actual, acc) ==
    [generation |-> gen, mutation_type |-> type, parameter_changed |-> name,
     old_value |-> old, new_value |-> new, expected_improvement |-> ei,
     actual_improvement |-> actual, accepted |-> acc]

\* Variant: the baseline updated only by a cycle that deployed a mutation.
next_baseline_on_deploy(baseline, observed, deployed) ==
    IF deployed THEN observed ELSE baseline

\* self.performance_baseline = current_performance, after the deploy branch
\* and outside it
next_baseline(baseline, observed, deployed) == observed

\* A log that keeps only the latest record in its last slot.
log_replace_last(h, record) ==
    IF h = <<>> THEN <<record>> ELSE [h EXCEPT ![Len(h)] = record]

\* self.history.append(record)
log_append(h, record) == Append(h, record)

----------------------------------------------------------------------------
(* Bounds and input sets of the model                                      *)

MaxBatch == 3          \* longest fork batch handed to select_best_fork
MaxGen == 1            \* evolve() calls explored with the wide rng draws
MaxGenDeep == 11       \* evolve() calls explored with the narrow rng draws
MaxRollbacks == 3      \* rollback() calls explored under SpecDeep
MaxGenThreads == 2     \* evolve() calls explored with a second thread reading
MaxGenBaseline == 3    \* evolve() calls explored with varying outcome records

\* Forks of the selection batches: curvature above, at and below the
\* thresholds; the second and the fourth have equal scores.
ForkPool ==
    {make_fork(Rat(9, 10), Rat(9, 10)), make_fork(Rat(3, 10), Rat(7, 10)),
     make_fork(Rat(8, 10), Rat(7, 10)), make_fork(Rat(5, 10), Rat(76, 100)),
     make_fork(Rat(95, 100), Rat(5, 10))}

SelKappas == {Rat(8, 10), Rat(5, 10), Rat(2, 10)}

Batches == UNION {[1..n -> ForkPool] : n \in 0..MaxBatch}

\* kappa_max arguments of InfiniGen(kappa_max=...)
KappaChoices == {Rat(57, 200), Rat(8, 10)}

\* Iteration orders of the _mutable_params set (the head of each); the order
\* depends on the process's string hashing and is fixed for its lifetime.
OrderA == <<"inductive_weight", "risk_tolerance", "fork_depth",
            "vector_search_weight", "deductive_weight", "alpha">>
OrderB == <<"alpha", "fear_weight", "forecast_horizon",
            "abductive_weight", "trust_weight", "risk_tolerance">>
HashOrders == {OrderA, OrderB}

\* Values returned by the rng of hypothesize(): (rng.normal, rng.uniform(0, 0.1))
FloatDraws ==
    {[delta |-> Rat(1, 20), ei |-> Rat(1, 10)],
     [delta |-> Rat(-1, 20), ei |-> RInt(0)]}

\* (rng.integers(-1, 2), rng.uniform(0, 0.05))
IntDraws ==
    {[delta |-> 1, ei |-> Rat(1, 20)],
     [delta |-> -1, ei |-> Rat(1, 50)],
     [delta |-> 0, ei |-> RInt(0)]}

DrawSet(name) == IF name \in IntParams THEN IntDraws ELSE FloatDraws

RECURSIVE DrawListsFrom(_, _)
DrawListsFrom(order, i) ==
    IF i > Len(order) THEN {<<>>}
    ELSE {<<d>> \o rest : d \in DrawSet(order[i]), rest \in DrawListsFrom(order, i + 1)}

DrawLists(order) == DrawListsFrom(order, 1)

\* A draw list for OrderA under which the inductive_weight step is the only
\* candidate with a positive expected improvement.
WeightDraws ==
    <<[delta |-> Rat(1, 20), ei |-> Rat(1, 10)],
      [delta |-> RInt(0), ei |-> RInt(0)],
      [delta |-> 0, ei |-> RInt(0)],
      [delta |-> RInt(0), ei |-> RInt(0)],
      [delta |-> RInt(0), ei |-> RInt(0)]>>

\* A draw list under which no candidate has a positive expected improvement.
NoDraws ==
    <<[delta |-> RInt(0), ei |-> RInt(0)],
      [delta |-> RInt(0), ei |-> RInt(0)],
      [delta |-> 0, ei |-> RInt(0)],
      [delta |-> RInt(0), ei |-> RInt(0)],
      [delta |-> RInt(0), ei |-> RInt(0)]>>

\* The one draw list of SpecDeep, for OrderA: the fork_depth step is the only
\* surviving candidate with a positive expected improvement.
DeepDraws ==
    <<[delta |-> RInt(0), ei |-> RInt(0)],
      [delta |-> Rat(1, 20), ei |-> Rat(1, 10)],
      [delta |-> 1, ei |-> Rat(1, 20)],
      [delta |-> RInt(0), ei |-> RInt(0)],
      [delta |-> RInt(0), ei |-> RInt(0)]>>

EmptyDict == [x \in {} |-> x]

ValidatedOutcome ==
    [validated |-> TRUE,
     delta |-> [sentiment_accuracy |-> Rat(9, 10), risk_error |-> Rat(1, 10),
                reward_error |-> Rat(-1, 10)]]

UnvalidatedOutcome == [validated |-> FALSE, delta |-> EmptyDict]

\* fork_outcomes arguments of evolve()
OutcomeInputs == {<<>>, <<UnvalidatedOutcome, ValidatedOutcome>>}

----------------------------------------------------------------------------
(* Initial states                                                          *)

\* InfiniGen.__init__ and the observation variables.
InitControllerWith(p, k, order) ==
    /\ params = p
    /\ kappa_max = k
    /\ generation = 0
    /\ history = <<>>
    /\ performance_baseline = Rat(1, 2)
    /\ rollback_stack = <<>>
    /\ mutable_order = SubSeq(order, 1, MaxCandidates)
    /\ pc = "idle"
    /\ current_performance = RInt(0)
    /\ candidates = <<>>
    /\ cand_i = 0
    /\ best_mutation = None
    /\ best_improvement = RInt(0)
    /\ params_at_call = p
    /\ pre_params = <<>>
    /\ undone = None
    /\ rollback_out = NoCall
    /\ rollbacks = 0
    /\ api_out = NoCall
    /\ fork_outcomes_at_call = <<>>
    /\ params_id = 0
    /\ stack_ids = <<>>

InitController(k, order) == InitControllerWith(DefaultParams, k, order)

\* NO3SYS.__init__: the fields of the system object itself.
InitSystem(ae, fd) ==
    /\ auto_evolve = ae
    /\ triangle_fork_depth = fd
    /\ circle_alpha = Rat(1, 100)
    /\ cycle_count = 0
    /\ pending_validations = EmptyDict
    /\ sys_pc = "idle"
    /\ sys_out = NoCall

\* TemporalValidator.__init__, and the forks that will be validated.
InitValidator(fs) ==
    /\ vforks = fs
    /\ validation_records = <<>>
    /\ curvature_outcome_log = <<>>
    /\ val_out = NoCall
    /\ validate_calls = 0

InitSelection(fs, k) ==
    /\ forks = fs
    /\ forks_in = fs
    /\ sel_kappa_max = k
    /\ gate_out = NoCall
    /\ best_out = NoCall

Init ==
    /\ \E k \in KappaChoices, order \in HashOrders : InitController(k, order)
    /\ InitSelection(<<>>, Rat(8, 10))
    /\ InitValidator(<<>>)
    /\ InitSystem(TRUE, 3)

InitDeep ==
    /\ \E k \in KappaChoices : InitController(k, OrderA)
    /\ InitSelection(<<>>, Rat(8, 10))
    /\ InitValidator(<<>>)
    /\ InitSystem(TRUE, 3)

InitSelect ==
    /\ InitController(Rat(8, 10), OrderA)
    /\ \E fs \in Batches, k \in SelKappas : InitSelection(fs, k)
    /\ InitValidator(<<>>)
    /\ InitSystem(TRUE, 3)

----------------------------------------------------------------------------
(* curvature.py calls                                                      *)

\* ethical_gate(forks[i], sel_kappa_max)
CallEthicalGate(i) ==
    /\ gate_out' = [status |-> "returned", idx |-> i,
                    value |-> ethical_gate(forks[i], sel_kappa_max)]
    /\ UNCHANGED <<forks, sel_kappa_max, best_out, forks_in>>
    /\ UNCHANGED <<ctlVars, valVars, sysVars>>

\* select_best_fork(forks, sel_kappa_max)
CallSelectBestFork ==
    /\ best_out' = select_best_fork(forks, sel_kappa_max)
    /\ UNCHANGED <<forks, sel_kappa_max, gate_out, forks_in>>
    /\ UNCHANGED <<ctlVars, valVars, sysVars>>

----------------------------------------------------------------------------
(* InfiniGen.evolve and InfiniGen.rollback                                 *)

\* evolve(), from its entry to the head of the for loop: the writes.
EvolveEntry(fork_outcomes, draws) ==
    /\ pc = "idle"
    /\ generation' = next_generation(generation)
    /\ current_performance' = observe(fork_outcomes, performance_baseline)
    /\ rollback_stack' = push_snapshot(rollback_stack, params)
    /\ stack_ids' = push_snapshot(stack_ids, snapshot_id(params_id, generation'))
    /\ candidates' = hypothesize(params, mutable_order, draws)
    /\ best_mutation' = None
    /\ best_improvement' = RInt(0)
    /\ cand_i' = 1
    /\ pc' = IF candidates' = <<>> THEN "deploy" ELSE "test"
    /\ params_at_call' = params
    /\ fork_outcomes_at_call' = fork_outcomes
    /\ pre_params' = Append(pre_params, params)
    /\ undone' = None
    /\ rollback_out' = NoCall
    /\ api_out' = NoCall
    /\ UNCHANGED <<params, kappa_max, history, performance_baseline, mutable_order,
                   rollbacks, params_id>>

\* evolve() called on the controller directly.
EvolveBegin(fork_outcomes, draws) ==
    /\ EvolveEntry(fork_outcomes, draws)
    /\ UNCHANGED <<selVars, valVars, sysVars>>

\* One iteration of the for loop of evolve().
TestCandidate ==
    /\ pc = "test"
    /\ cand_i <= Len(candidates)
    /\ LET c == candidates[cand_i]
       IN  /\ IF rejects(params, c, kappa_max)
              THEN /\ history' = log_append(history,
                          EvolutionRecord(generation, "rejected_curvature", c.name,
                                          params[c.name], c.new_val, c.ei, None, FALSE))
                   /\ UNCHANGED <<best_mutation, best_improvement>>
              ELSE /\ UNCHANGED history
                   /\ IF improves(c.ei, best_improvement)
                      THEN /\ best_improvement' = c.ei
                           /\ best_mutation' = c
                      ELSE UNCHANGED <<best_mutation, best_improvement>>
           /\ params' = live_after_test(params, c.name, c.new_val)
    /\ cand_i' = cand_i + 1
    /\ pc' = IF cand_i = Len(candidates) THEN "deploy" ELSE "test"
    /\ UNCHANGED <<kappa_max, generation, performance_baseline, rollback_stack,
                   mutable_order, current_performance, candidates, params_at_call,
                   pre_params, undone, rollback_out, rollbacks, api_out,
                   fork_outcomes_at_call, params_id, stack_ids>>
    /\ UNCHANGED <<selVars, valVars, sysVars>>

\* evolve(), from the end of the for loop to its return.
DeployBest ==
    /\ pc = "deploy"
    /\ IF best_mutation # None
       THEN /\ params' = deploy(params, best_mutation)
            /\ history' = log_append(history,
                   EvolutionRecord(generation, "accepted", best_mutation.name,
                                   params[best_mutation.name], best_mutation.new_val,
                                   best_mutation.ei,
                                   RSub(best_improvement, current_performance), TRUE))
       ELSE UNCHANGED <<params, history>>
    /\ rollback_stack' = write_through(rollback_stack, stack_ids, params_id, params')
    /\ performance_baseline' =
           next_baseline(performance_baseline, current_performance,
                         best_mutation # None)
    /\ pc' = "idle"
    /\ current_performance' = RInt(0)
    /\ candidates' = <<>>
    /\ cand_i' = 0
    /\ best_mutation' = None
    /\ best_improvement' = RInt(0)
    /\ UNCHANGED <<kappa_max, generation, mutable_order,
                   params_at_call, pre_params, undone, rollback_out, rollbacks,
                   api_out, fork_outcomes_at_call, params_id, stack_ids>>
    /\ UNCHANGED <<selVars, valVars, sysVars>>

\* The deploy branch of evolve() statement by statement, as a second thread
\* meets it.  old_val = getattr(...); setattr(self.params, param_name, new_val)
DeploySetattr ==
    /\ pc = "deploy"
    /\ best_mutation # None
    /\ params' = [params EXCEPT ![best_mutation.name] = best_mutation.new_val]
    /\ rollback_stack' = write_through(rollback_stack, stack_ids, params_id, params')
    /\ best_mutation' = [name |-> best_mutation.name, new_val |-> best_mutation.new_val,
                         ei |-> best_mutation.ei,
                         old_val |-> params[best_mutation.name]]
    /\ pc' = "deploy_normalize_reasoning"
    /\ UNCHANGED <<kappa_max, generation, history, performance_baseline, mutable_order,
                   current_performance, candidates, cand_i, best_improvement,
                   params_at_call, pre_params, undone, rollback_out, rollbacks,
                   api_out, fork_outcomes_at_call, params_id, stack_ids>>
    /\ UNCHANGED <<selVars, valVars, sysVars>>

\* self.params.normalize_reasoning_weights() of the deploy branch
DeployNormalizeReasoning ==
    /\ pc = "deploy_normalize_reasoning"
    /\ params' = normalize_reasoning_weights(params)
    /\ rollback_stack' = write_through(rollback_stack, stack_ids, params_id, params')
    /\ pc' = "deploy_normalize_retrieval"
    /\ UNCHANGED <<kappa_max, generation, history, performance_baseline, mutable_order,
                   current_performance, candidates, cand_i, best_mutation,
                   best_improvement, params_at_call, pre_params, undone, rollback_out,
                   rollbacks, api_out, fork_outcomes_at_call, params_id, stack_ids>>
    /\ UNCHANGED <<selVars, valVars, sysVars>>

\* self.params.normalize_retrieval_weights() of the deploy branch
DeployNormalizeRetrieval ==
    /\ pc = "deploy_normalize_retrieval"
    /\ params' = normalize_retrieval_weights(params)
    /\ rollback_stack' = write_through(rollback_stack, stack_ids, params_id, params')
    /\ pc' = "deploy_log"
    /\ UNCHANGED <<kappa_max, generation, history, performance_baseline, mutable_order,
                   current_performance, candidates, cand_i, best_mutation,
                   best_improvement, params_at_call, pre_params, undone, rollback_out,
                   rollbacks, api_out, fork_outcomes_at_call, params_id, stack_ids>>
    /\ UNCHANGED <<selVars, valVars, sysVars>>

\* self.history.append(record) of the deploy branch
DeployLog ==
    /\ pc = "deploy_log"
    /\ history' = log_append(history,
           EvolutionRecord(generation, "accepted", best_mutation.name,
                           best_mutation.old_val, best_mutation.new_val,
                           best_mutation.ei,
                           RSub(best_improvement, current_performance), TRUE))
    /\ pc' = "deploy_return"
    /\ UNCHANGED <<params, kappa_max, generation, performance_baseline, rollback_stack,
                   mutable_order, current_performance, candidates, cand_i,
                   best_mutation, best_improvement, params_at_call, pre_params,
                   undone, rollback_out, rollbacks, api_out, fork_outcomes_at_call,
                   params_id, stack_ids>>
    /\ UNCHANGED <<selVars, valVars, sysVars>>

\* self.performance_baseline = current_performance; return self.params
DeployReturn ==
    /\ \/ pc = "deploy_return"
       \/ pc = "deploy" /\ best_mutation = None
    /\ performance_baseline' =
           next_baseline(performance_baseline, current_performance,
                         best_mutation # None)
    /\ pc' = "idle"
    /\ current_performance' = RInt(0)
    /\ candidates' = <<>>
    /\ cand_i' = 0
    /\ best_mutation' = None
    /\ best_improvement' = RInt(0)
    /\ UNCHANGED <<params, kappa_max, generation, history, rollback_stack,
                   mutable_order, params_at_call, pre_params, undone, rollback_out,
                   rollbacks, api_out, fork_outcomes_at_call, params_id, stack_ids>>
    /\ UNCHANGED <<selVars, valVars, sysVars>>

\* A second thread reading ig.params and ig.history while the first is
\* anywhere in evolve() or between two calls: nothing in the class excludes it.
Read ==
    /\ api_out' = [status |-> "returned", op |-> "read", params |-> params,
                   history |-> history, generation |-> generation,
                   entry |-> params_at_call, at |-> pc]
    /\ UNCHANGED <<params, kappa_max, generation, history, performance_baseline,
                   rollback_stack, mutable_order, pc, current_performance, candidates,
                   cand_i, best_mutation, best_improvement, params_at_call,
                   pre_params, undone, rollback_out, rollbacks,
                   fork_outcomes_at_call, params_id, stack_ids>>
    /\ UNCHANGED <<selVars, valVars, sysVars>>

\* rollback() returning self.params whether or not a snapshot was popped.
rollback_result_always(stack, restored) ==
    [status |-> "returned", value |-> restored]

\* The return value of rollback(): the restored parameters, or None.
rollback_result(stack, restored) ==
    IF stack # <<>> THEN [status |-> "returned", value |-> restored]
    ELSE [status |-> "returned_none"]

\* InfiniGen.rollback
Rollback ==
    /\ pc = "idle"
    /\ IF rollback_stack # <<>>
       THEN /\ params' = pop_snapshot(rollback_stack).value
            /\ rollback_stack' = pop_snapshot(rollback_stack).rest
            /\ params_id' = pop_snapshot(stack_ids).value
            /\ stack_ids' = pop_snapshot(stack_ids).rest
            /\ undone' = pre_params[Len(pre_params)]
            /\ pre_params' = SubSeq(pre_params, 1, Len(pre_params) - 1)
       ELSE UNCHANGED <<params, rollback_stack, params_id, stack_ids, undone,
                        pre_params>>
    /\ rollback_out' = rollback_result(rollback_stack, params')
    /\ UNCHANGED <<kappa_max, generation, history, performance_baseline,
                   mutable_order, pc, current_performance, candidates, cand_i,
                   best_mutation, best_improvement, params_at_call, api_out,
                   fork_outcomes_at_call>>
    /\ UNCHANGED <<selVars, valVars, sysVars>>

----------------------------------------------------------------------------
(* validator.py: TemporalValidator                                         *)

MaxValidations == 3    \* validate_fork() calls explored under SpecValidate

\* if len(self.curvature_outcome_log) < 3
MinOutcomes == 3

\* A Python bool, as opposed to None.
PyBool(b) == [bool |-> b]

\* Fork(...): the fields validate_fork reads and writes.
Fork(id, curvature, trust, satisfaction, risk, reward) ==
    [fork_id |-> id, curvature |-> curvature,
     affective_state |-> [trust |-> trust, satisfaction |-> satisfaction],
     predictive_vector |-> [risk |-> risk, reward |-> reward],
     validation |-> [validated |-> FALSE, actual_outcome |-> None, delta |-> None]]

\* The forks handed to the validator: a Fork() of default projections, a
\* fork of high curvature, and one whose curvature is exactly 0.5.
VForkPool ==
    <<Fork("F1", RInt(0), Rat(1, 2), Rat(3, 5), Rat(1, 5), Rat(7, 10)),
      Fork("F2", Rat(9, 10), Rat(7, 10), Rat(7, 10), Rat(1, 5), Rat(4, 5)),
      Fork("F3", Rat(1, 2), Rat(2, 5), Rat(4, 5), Rat(1, 2), Rat(1, 2))>>

\* actual_outcome arguments: the one of tests/test_system.py, one with every
\* field missing, one reporting harm only, one with a large risk.
ActualOutcomes ==
    {[risk |-> Rat(3, 10), reward |-> Rat(7, 10), sentiment_quality |-> Rat(4, 5),
      harm |-> Rat(1, 10)],
     EmptyDict,
     [harm |-> Rat(3, 5)],
     [risk |-> Rat(9, 10), sentiment_quality |-> Rat(7, 10)]}

\* The delta of validate_fork() with the errors taken as predicted - actual.
validate_fork_delta_reversed(fork, actual_outcome) ==
    LET predicted_risk == fork.predictive_vector.risk
        predicted_reward == fork.predictive_vector.reward
        actual_risk == Get(actual_outcome, "risk", predicted_risk)
        actual_reward == Get(actual_outcome, "reward", predicted_reward)
        actual_sentiment == Get(actual_outcome, "sentiment_quality", Rat(7, 10))
        predicted_sentiment ==
            RDiv(RAdd(fork.affective_state.trust, fork.affective_state.satisfaction),
                 RInt(2))
    IN  [risk_error |-> RSub(predicted_risk, actual_risk),
         reward_error |-> RSub(predicted_reward, actual_reward),
         sentiment_accuracy |->
             RSub(RInt(1), RAbs(RSub(actual_sentiment, predicted_sentiment)))]

\* The delta computed by validate_fork().
validate_fork_delta(fork, actual_outcome) ==
    LET predicted_risk == fork.predictive_vector.risk
        predicted_reward == fork.predictive_vector.reward
        actual_risk == Get(actual_outcome, "risk", predicted_risk)
        actual_reward == Get(actual_outcome, "reward", predicted_reward)
        risk_error == RSub(actual_risk, predicted_risk)
        reward_error == RSub(actual_reward, predicted_reward)
        actual_sentiment == Get(actual_outcome, "sentiment_quality", Rat(7, 10))
        predicted_sentiment ==
            RDiv(RAdd(fork.affective_state.trust, fork.affective_state.satisfaction),
                 RInt(2))
        sentiment_accuracy ==
            RSub(RInt(1), RAbs(RSub(actual_sentiment, predicted_sentiment)))
    IN  [risk_error |-> risk_error, reward_error |-> reward_error,
         sentiment_accuracy |-> sentiment_accuracy]

\* The ValidationRecord built by validate_fork().
ValidationRecord(fork, actual_outcome) ==
    [validated |-> TRUE, actual_outcome |-> actual_outcome,
     delta |-> validate_fork_delta(fork, actual_outcome)]

\* The entry validate_fork() appends to curvature_outcome_log.
outcome_log_entry(fork, actual_outcome) ==
    [fork_id |-> fork.fork_id, curvature |-> fork.curvature,
     actual_harm |-> Get(actual_outcome, "harm", RInt(0)),
     curvature_predicted_harm |-> RLt(Rat(1, 2), fork.curvature)]

\* The entry validate_fork() appends to validation_records.
validation_entry(fork, actual_outcome) ==
    [fork_id |-> fork.fork_id, validated |-> TRUE,
     delta |-> validate_fork_delta(fork, actual_outcome),
     curvature |-> fork.curvature]

\* np.mean of a non-empty list
RMean(s) == RDiv(RSum(s), RInt(Len(s)))

\* np.std(xs) > 0.2, through the variance: mean(x^2) - mean(x)^2 > 0.04
StdAbove(s, num, den) ==
    LET squares == [i \in 1..Len(s) |-> RMul(s[i], s[i])]
        variance == RSub(RMean(squares), RMul(RMean(s), RMean(s)))
    IN  RLt(RMul(Rat(num, den), Rat(num, den)), variance)

\* detect_bias() with sample_size counting the forks validated.
detect_bias_per_fork(records) ==
    IF records = <<>> THEN [status |-> "insufficient_data"]
    ELSE LET risk_errors == [i \in 1..Len(records) |-> records[i].delta.risk_error]
             reward_errors == [i \in 1..Len(records) |-> records[i].delta.reward_error]
             accuracies ==
                 [i \in 1..Len(records) |-> records[i].delta.sentiment_accuracy]
         IN  [risk_bias |-> RMean(risk_errors),
              reward_bias |-> RMean(reward_errors),
              sentiment_mean_accuracy |-> RMean(accuracies),
              overconfidence_risk |-> StdAbove(risk_errors, 1, 5),
              sample_size |->
                  Cardinality({records[i].fork_id : i \in 1..Len(records)})]

\* TemporalValidator.detect_bias
detect_bias(records) ==
    IF records = <<>> THEN [status |-> "insufficient_data"]
    ELSE LET risk_errors == [i \in 1..Len(records) |-> records[i].delta.risk_error]
             reward_errors == [i \in 1..Len(records) |-> records[i].delta.reward_error]
             accuracies ==
                 [i \in 1..Len(records) |-> records[i].delta.sentiment_accuracy]
         IN  [risk_bias |-> RMean(risk_errors),
              reward_bias |-> RMean(reward_errors),
              sentiment_mean_accuracy |-> RMean(accuracies),
              overconfidence_risk |-> StdAbove(risk_errors, 1, 5),
              sample_size |-> Len(records)]

\* The actual_harm values of the log entries flagged (or not) as high curvature.
RECURSIVE harms_where(_, _)
harms_where(log, flag) ==
    IF log = <<>> THEN <<>>
    ELSE (IF Head(log).curvature_predicted_harm = flag
          THEN <<Head(log).actual_harm>> ELSE <<>>) \o harms_where(Tail(log), flag)

\* curvature_effectiveness() comparing the two means with >=.
curvature_effectiveness_ge(log) ==
    IF Len(log) < MinOutcomes THEN [status |-> "insufficient_data"]
    ELSE LET high == harms_where(log, TRUE)
             low == harms_where(log, FALSE)
         IN  [high_curvature_mean_harm |-> IF high # <<>> THEN RMean(high) ELSE RInt(0),
              low_curvature_mean_harm |-> IF low # <<>> THEN RMean(low) ELSE RInt(0),
              curvature_signal_effective |->
                  IF high # <<>> /\ low # <<>>
                  THEN PyBool(RLe(RMean(low), RMean(high)))
                  ELSE None]

\* TemporalValidator.curvature_effectiveness
curvature_effectiveness(log) ==
    IF Len(log) < MinOutcomes THEN [status |-> "insufficient_data"]
    ELSE LET high_curvature_harm == harms_where(log, TRUE)
             low_curvature_harm == harms_where(log, FALSE)
         IN  [high_curvature_mean_harm |->
                  IF high_curvature_harm # <<>> THEN RMean(high_curvature_harm)
                  ELSE RInt(0),
              low_curvature_mean_harm |->
                  IF low_curvature_harm # <<>> THEN RMean(low_curvature_harm)
                  ELSE RInt(0),
              curvature_signal_effective |->
                  IF high_curvature_harm # <<>> /\ low_curvature_harm # <<>>
                  THEN PyBool(RLt(RMean(low_curvature_harm),
                                  RMean(high_curvature_harm)))
                  ELSE None]

InitValidate ==
    /\ InitController(Rat(8, 10), OrderA)
    /\ InitSelection(<<>>, Rat(8, 10))
    /\ InitValidator(VForkPool)
    /\ InitSystem(TRUE, 3)

\* validate_fork(vforks[i], actual_outcome): the writes.
ValidateForkCall(i, actual_outcome) ==
    /\ LET fork == vforks[i]
           record == ValidationRecord(fork, actual_outcome)
       IN  /\ vforks' = [vforks EXCEPT ![i].validation = record]
           /\ curvature_outcome_log' =
                  Append(curvature_outcome_log, outcome_log_entry(fork, actual_outcome))
           /\ validation_records' =
                  Append(validation_records, validation_entry(fork, actual_outcome))
           /\ val_out' = [status |-> "returned", op |-> "validate_fork", idx |-> i,
                          arg |-> actual_outcome, value |-> record]
    /\ validate_calls' = validate_calls + 1

\* validator.validate_fork(vforks[i], actual_outcome)
ValidateFork(i, actual_outcome) ==
    /\ ValidateForkCall(i, actual_outcome)
    /\ UNCHANGED <<selVars, ctlVars, sysVars>>

\* validator.detect_bias()
CallDetectBias ==
    /\ val_out' = [status |-> "returned", op |-> "detect_bias",
                   value |-> detect_bias(validation_records)]
    /\ UNCHANGED <<vforks, validation_records, curvature_outcome_log, validate_calls>>
    /\ UNCHANGED <<selVars, ctlVars, sysVars>>

\* validator.curvature_effectiveness()
CallCurvatureEffectiveness ==
    /\ val_out' = [status |-> "returned", op |-> "curvature_effectiveness",
                   value |-> curvature_effectiveness(curvature_outcome_log)]
    /\ UNCHANGED <<vforks, validation_records, curvature_outcome_log, validate_calls>>
    /\ UNCHANGED <<selVars, ctlVars, sysVars>>

----------------------------------------------------------------------------
(* Direct calls of InfiniGen.observe and CognitiveParameters.normalize_*   *)

\* A second validated record, with errors of the other signs.
ValidatedOutcomeB ==
    [validated |-> TRUE,
     delta |-> [sentiment_accuracy |-> Rat(3, 5), risk_error |-> Rat(-1, 5),
                reward_error |-> Rat(1, 10)]]

\* Arguments of the direct observe() calls.
ObserveInputs ==
    {<<>>, <<UnvalidatedOutcome>>, <<UnvalidatedOutcome, UnvalidatedOutcome>>,
     <<ValidatedOutcome>>, <<ValidatedOutcomeB, UnvalidatedOutcome>>,
     <<ValidatedOutcome, UnvalidatedOutcome, ValidatedOutcomeB>>}

\* Parameter sets handed to InfiniGen(params=...): the defaults, all-zero
\* weights, weights that do not sum to 1, and a negative reasoning weight.
ParamChoices ==
    {DefaultParams,
     [DefaultParams EXCEPT !.deductive_weight = RInt(0), !.inductive_weight = RInt(0),
                           !.abductive_weight = RInt(0),
                           !.vector_search_weight = RInt(0),
                           !.graph_search_weight = RInt(0)],
     [DefaultParams EXCEPT !.deductive_weight = Rat(1, 2), !.inductive_weight = Rat(1, 2),
                           !.abductive_weight = Rat(1, 2),
                           !.vector_search_weight = Rat(1, 2),
                           !.graph_search_weight = RInt(1)],
     [DefaultParams EXCEPT !.deductive_weight = Rat(-1, 2), !.inductive_weight = RInt(1),
                           !.abductive_weight = RInt(0)]}

InitApi ==
    /\ \E p \in ParamChoices : InitControllerWith(p, Rat(8, 10), OrderA)
    /\ InitSelection(<<>>, Rat(8, 10))
    /\ InitValidator(<<>>)
    /\ InitSystem(TRUE, 3)

\* The controller fields and locals a direct call leaves alone.
apiFrame == <<kappa_max, generation, history, performance_baseline,
              mutable_order, pc, current_performance, candidates, cand_i,
              best_mutation, best_improvement, params_at_call, pre_params, undone,
              rollback_out, rollbacks, fork_outcomes_at_call, params_id, stack_ids>>

\* ig.observe(fork_outcomes), called between evolve() calls.
CallObserve(fork_outcomes) ==
    /\ pc = "idle"
    /\ api_out' = [status |-> "returned", op |-> "observe", arg |-> fork_outcomes,
                   value |-> observe(fork_outcomes, performance_baseline)]
    /\ UNCHANGED <<params, rollback_stack, apiFrame>>
    /\ UNCHANGED <<selVars, valVars, sysVars>>

\* sum(1 for r in h if r.accepted)
count_accepted(h) == Cardinality({i \in 1..Len(h) : h[i].accepted})

\* sum(1 for r in h if not r.accepted)
count_rejected(h) == Cardinality({i \in 1..Len(h) : ~h[i].accepted})

\* Variant: status() reporting every record of the log as rejected.
status_rejected_all(p, gen, baseline, k, h) ==
    [generation |-> gen, performance_baseline |-> baseline, kappa_max |-> k,
     mutations_accepted |-> count_accepted(h),
     mutations_rejected |-> Len(h),
     current_fork_depth |-> p.fork_depth, current_alpha |-> p.alpha,
     current_risk_tolerance |-> p.risk_tolerance]

\* InfiniGen.status
status(p, gen, baseline, k, h) ==
    [generation |-> gen, performance_baseline |-> baseline, kappa_max |-> k,
     mutations_accepted |-> count_accepted(h),
     mutations_rejected |-> count_rejected(h),
     current_fork_depth |-> p.fork_depth, current_alpha |-> p.alpha,
     current_risk_tolerance |-> p.risk_tolerance]

\* ig.status() called between evolve() and rollback() calls
CallStatus ==
    /\ pc = "idle"
    /\ api_out' = [status |-> "returned", op |-> "status",
                   value |-> status(params, generation, performance_baseline,
                                    kappa_max, history)]
    /\ UNCHANGED <<params, rollback_stack, apiFrame>>
    /\ UNCHANGED <<selVars, valVars, sysVars>>

\* ig.hypothesize() called directly; draws are the values its rng returns.
CallHypothesize(draws) ==
    /\ pc = "idle"
    /\ api_out' = [status |-> "returned", op |-> "hypothesize",
                   value |-> hypothesize(params, mutable_order, draws)]
    /\ UNCHANGED <<params, rollback_stack>>
    /\ UNCHANGED apiFrame
    /\ UNCHANGED <<selVars, valVars, sysVars>>

\* ig.params.normalize_reasoning_weights(), called between evolve() calls.
CallNormalizeReasoning ==
    /\ pc = "idle"
    /\ params' = normalize_reasoning_weights(params)
    /\ api_out' = [status |-> "returned", op |-> "normalize_reasoning",
                   before |-> params, after |-> params']
    /\ rollback_stack' = write_through(rollback_stack, stack_ids, params_id, params')
    /\ UNCHANGED apiFrame
    /\ UNCHANGED <<selVars, valVars, sysVars>>

\* ig.params.normalize_retrieval_weights(), called between evolve() calls.
CallNormalizeRetrieval ==
    /\ pc = "idle"
    /\ params' = normalize_retrieval_weights(params)
    /\ api_out' = [status |-> "returned", op |-> "normalize_retrieval",
                   before |-> params, after |-> params']
    /\ rollback_stack' = write_through(rollback_stack, stack_ids, params_id, params')
    /\ UNCHANGED apiFrame
    /\ UNCHANGED <<selVars, valVars, sysVars>>

----------------------------------------------------------------------------
(* manifolds/heptagon.py, manifolds/triangle.py, manifolds/hexagon.py and   *)
(* the curvature of a fork (curvature.py)                                  *)

\* Number of signal words of each list found in the text of one fork.
Signals(trust, distrust, fear, urgency, satisfaction, risk, reward, volatile, stable) ==
    [trust |-> trust, distrust |-> distrust, fear |-> fear, urgency |-> urgency,
     satisfaction |-> satisfaction, risk |-> risk, reward |-> reward,
     volatile |-> volatile, stable |-> stable]

\* np.clip(x, 0.0, 1.0)
Clip01(x) == RClip(x, RInt(0), RInt(1))

\* x + step * count
Bump(x, step, count) == RAdd(x, RMul(step, RInt(count)))

\* Heptagon.score_affective
score_affective(sig) ==
    [trust |-> Clip01(RSub(Bump(Rat(1, 2), Rat(8, 100), sig.trust),
                           RMul(Rat(8, 100), RInt(sig.distrust)))),
     fear |-> Clip01(Bump(Rat(1, 10), Rat(1, 10), sig.fear)),
     urgency |-> Clip01(Bump(Rat(3, 10), Rat(1, 10), sig.urgency)),
     satisfaction |-> Clip01(Bump(Rat(1, 2), Rat(7, 100), sig.satisfaction)),
     frustration |-> Clip01(Rat(1, 10))]

\* Heptagon.score_predictive
score_predictive(affective_state, sig) ==
    [risk |-> Clip01(Bump(RMul(affective_state.fear, Rat(1, 2)), Rat(8, 100), sig.risk)),
     reward |-> Clip01(Bump(RMul(affective_state.satisfaction, Rat(6, 10)),
                            Rat(7, 100), sig.reward)),
     volatility |-> Clip01(Bump(RMul(affective_state.urgency, Rat(4, 10)),
                                Rat(6, 100), sig.volatile)),
     stability |-> Clip01(Bump(RMul(affective_state.trust, Rat(7, 10)),
                               Rat(7, 100), sig.stable))]

\* Heptagon.annotate_fork
annotate_fork(fork, sig) ==
    [fork EXCEPT !.affective_state = score_affective(sig),
                 !.predictive_vector = score_predictive(score_affective(sig), sig)]

\* Fork(confidence=...) as built by Triangle.generate_forks: the other fields
\* at their dataclass defaults.
NewFork(id, confidence) ==
    [fork_id |-> id, confidence |-> confidence, curvature |-> RInt(0),
     selected |-> FALSE,
     affective_state |-> [trust |-> Rat(1, 2), fear |-> Rat(1, 10),
                          urgency |-> Rat(3, 10), satisfaction |-> Rat(6, 10),
                          frustration |-> Rat(1, 10)],
     predictive_vector |-> [risk |-> Rat(2, 10), reward |-> Rat(7, 10),
                            volatility |-> Rat(3, 10), stability |-> Rat(8, 10)],
     validation |-> [validated |-> FALSE, actual_outcome |-> None, delta |-> None]]

\* confidence_base of the modes deductive, inductive, abductive
confidence_base == <<Rat(75, 100), Rat(60, 100), Rat(55, 100)>>

\* Variant: a range one short, range(min(self.fork_depth, 3) - 1).
fork_range_short(fork_depth) ==
    1..((IF fork_depth < 3 THEN fork_depth ELSE 3) - 1)

\* range(min(self.fork_depth, 3))
fork_range(fork_depth) ==
    1..(IF fork_depth < 3 THEN fork_depth ELSE 3)

\* Triangle.generate_forks: noise[i] is the value np.random.normal(0, 0.05)
\* returned for the i-th fork, first_id the identifier of the first one.
generate_forks(fork_depth, noise, first_id) ==
    [i \in fork_range(fork_depth) |->
        NewFork(first_id + i - 1,
                RClip(RAdd(confidence_base[i], noise[i]), Rat(1, 10), RInt(1)))]

\* The square of a float.
Sq(x) == RMul(x, x)

\* floor(x * 100) of a non-negative float
Hundredths(x) ==
    LET q == x[1] \div x[2]
        r == x[1] % x[2]
    IN  q * 100 + (r * 100) \div x[2]

\* The largest k with k * k <= m.
RECURSIVE ISqrtFrom(_, _)
ISqrtFrom(m, k) == IF (k + 1) * (k + 1) > m THEN k ELSE ISqrtFrom(m, k + 1)

\* float sqrt, carried to one decimal place (rounded down)
RSqrt(x) == Rat(ISqrtFrom(Hundredths(x), 0), 10)

\* np.linalg.norm of the difference of two affective vectors
affect_distance(a, b) ==
    RSqrt(RAdd(RAdd(RAdd(RAdd(Sq(RSub(a.trust, b.trust)), Sq(RSub(a.fear, b.fear))),
                         Sq(RSub(a.urgency, b.urgency))),
                    Sq(RSub(a.satisfaction, b.satisfaction))),
               Sq(RSub(a.frustration, b.frustration))))

\* np.linalg.norm of the difference of two predictive vectors
predict_distance(a, b) ==
    RSqrt(RAdd(RAdd(RAdd(Sq(RSub(a.risk, b.risk)), Sq(RSub(a.reward, b.reward))),
                    Sq(RSub(a.volatility, b.volatility))),
               Sq(RSub(a.stability, b.stability))))

\* compute_affective_gradient
compute_affective_gradient(fs) ==
    IF Len(fs) < 2 THEN RInt(0)
    ELSE RMean([i \in 1..(Len(fs) - 1) |->
                   affect_distance(fs[i + 1].affective_state, fs[i].affective_state)])

\* compute_predictive_gradient
compute_predictive_gradient(fs) ==
    IF Len(fs) < 2 THEN RInt(0)
    ELSE RMean([i \in 1..(Len(fs) - 1) |->
                   predict_distance(fs[i + 1].predictive_vector,
                                    fs[i].predictive_vector)])

\* internal_tension + contextual_divergence * 0.1, before the clip
curvature_unclipped(fork, context_forks) ==
    LET affect == fork.affective_state
        predict == fork.predictive_vector
        internal_tension ==
            RAdd(RAdd(RAdd(
                RMul(RAbs(RSub(affect.fear, RSub(RInt(1), predict.reward))), Rat(3, 10)),
                RMul(RAbs(RSub(affect.trust, RSub(RInt(1), predict.risk))), Rat(3, 10))),
                RMul(RAbs(RSub(affect.frustration, RSub(RInt(1), fork.confidence))),
                     Rat(2, 10))),
                RMul(RMul(predict.volatility, affect.urgency), Rat(2, 10)))
        contextual_divergence ==
            IF context_forks # <<>>
            THEN RAdd(compute_affective_gradient(<<fork>> \o context_forks),
                      compute_predictive_gradient(<<fork>> \o context_forks))
            ELSE RInt(0)
    IN  RAdd(internal_tension, RMul(contextual_divergence, Rat(1, 10)))

\* Variant: compute_fork_curvature without the final np.clip.
compute_fork_curvature_unclipped(fork, context_forks) ==
    curvature_unclipped(fork, context_forks)

\* compute_fork_curvature
compute_fork_curvature(fork, context_forks) ==
    RClip(curvature_unclipped(fork, context_forks), RInt(0), RInt(2))

\* [f for f in forks if f != fork], for fork = fs[i]
others(fs, i) == SelectSeq(fs, LAMBDA f : f # fs[i])

\* for fork in forks: fork.curvature = compute_fork_curvature(fork, others)
with_curvature(fs) ==
    [i \in 1..Len(fs) |->
        [fs[i] EXCEPT !.curvature = compute_fork_curvature(fs[i], others(fs, i))]]

\* ConfidenceService.compute_ensemble_confidence
compute_ensemble_confidence(fs) ==
    IF fs = <<>> THEN RInt(0)
    ELSE RMean([i \in 1..Len(fs) |->
                   RMul(fs[i].confidence,
                        RSub(RInt(1), RMul(fs[i].curvature, Rat(2, 10))))])

----------------------------------------------------------------------------
(* system.py: NO3SYS.process and NO3SYS.validate_outcome                   *)

\* if self.auto_evolve and self._cycle_count % 5 == 0
EvolveEvery == 5

\* Variant: the evolution of phase 9 run on the cycles 1, 6, 11, ...
evolution_due_from_first(auto, count) == auto /\ count % EvolveEvery = 1

\* if self.auto_evolve and self._cycle_count % 5 == 0
evolution_due(auto, count) == auto /\ count % EvolveEvery = 0

\* The validated list process() hands to evolve().
RECURSIVE validated_outcomes(_)
validated_outcomes(fs) ==
    IF fs = <<>> THEN <<>>
    ELSE (IF Head(fs).validation.validated
          THEN <<[validated |-> Head(fs).validation.validated,
                  delta |-> Head(fs).validation.delta]>>
          ELSE <<>>)
         \o validated_outcomes(Tail(fs))

\* self._pending_validations[fork_id] = fork: the dict maps the identifier to
\* the fork object, which is the one at position idx of self._all_forks.
dict_set(d, key, idx) ==
    [k \in DOMAIN d \cup {key} |-> IF k = key THEN idx ELSE d[k]]

\* The batch of one process() cycle after phases 3 to 5, before the selection.
process_batch(fork_depth, inp, first_id) ==
    LET generated == generate_forks(fork_depth, inp.noise, first_id)
    IN  with_curvature([i \in 1..Len(generated) |->
                           annotate_fork(generated[i], inp.signals[i])])

\* process(), from its entry to the call of evolve() or, without one, to its
\* return.  draws are the values the rng of hypothesize() returns when the
\* cycle evolves.
Process(inp, draws) ==
    /\ sys_pc = "idle"
    /\ pc = "idle"
    /\ cycle_count' = cycle_count + 1
    /\ \E batch \in {process_batch(triangle_fork_depth, inp, Len(vforks) + 1)} :
       \E choice \in {select_best_fork(batch, sel_kappa_max)} :
           IF choice.status = "raised"
           THEN /\ sys_out' = [status |-> "raised", op |-> "process",
                               cycle |-> cycle_count + 1]
                /\ UNCHANGED <<vforks, pending_validations, sys_pc>>
                /\ UNCHANGED ctlVars
           ELSE LET marked == [batch EXCEPT ![choice.idx].selected = TRUE]
                IN  /\ vforks' = vforks \o marked
                    /\ pending_validations' =
                           dict_set(pending_validations, marked[choice.idx].fork_id,
                                    Len(vforks) + choice.idx)
                    /\ sys_out' =
                           [status |-> "returned", op |-> "process",
                            forks |-> marked, selected_fork |-> marked[choice.idx],
                            fork_count |-> Len(marked),
                            ensemble_confidence |-> compute_ensemble_confidence(marked),
                            cycle |-> cycle_count + 1]
                    /\ IF evolution_due(auto_evolve, cycle_count + 1)
                       THEN /\ EvolveEntry(validated_outcomes(vforks'), draws)
                            /\ sys_pc' = "evolving"
                       ELSE /\ UNCHANGED ctlVars
                            /\ UNCHANGED sys_pc
    /\ UNCHANGED <<validation_records, curvature_outcome_log, val_out, validate_calls>>
    /\ UNCHANGED <<auto_evolve, triangle_fork_depth, circle_alpha>>
    /\ UNCHANGED selVars

\* process() after evolve() returned: the sync of the evolved parameters.
ProcessSync ==
    /\ sys_pc = "evolving"
    /\ pc = "idle"
    /\ triangle_fork_depth' = params.fork_depth
    /\ circle_alpha' = params.alpha
    /\ sys_pc' = "idle"
    /\ UNCHANGED <<auto_evolve, cycle_count, pending_validations, sys_out>>
    /\ UNCHANGED <<selVars, ctlVars, valVars>>

\* Variant: the lookup without the search of self._all_forks.
find_fork_pending_only(pending, all_forks, fork_id) ==
    IF fork_id \in DOMAIN pending THEN pending[fork_id] ELSE 0

\* The fork validate_outcome(fork_id, ...) finds: its position in
\* self._all_forks, 0 for none.
find_fork(pending, all_forks, fork_id) ==
    IF fork_id \in DOMAIN pending THEN pending[fork_id]
    ELSE IF \E i \in 1..Len(all_forks) : all_forks[i].fork_id = fork_id
         THEN CHOOSE i \in 1..Len(all_forks) :
                  /\ all_forks[i].fork_id = fork_id
                  /\ \A j \in 1..(i - 1) : all_forks[j].fork_id # fork_id
         ELSE 0

\* validate_outcome(fork_id, actual_outcome)
ValidateOutcome(fork_id, actual_outcome) ==
    /\ sys_pc = "idle"
    /\ pc = "idle"
    /\ LET i == find_fork(pending_validations, vforks, fork_id)
       IN  IF i = 0
           THEN /\ sys_out' = [status |-> "returned", op |-> "validate_outcome",
                               fork_id |-> fork_id, found |-> 0,
                               value |-> [error |-> fork_id]]
                /\ UNCHANGED valVars
           ELSE /\ ValidateForkCall(i, actual_outcome)
                /\ sys_out' = [status |-> "returned", op |-> "validate_outcome",
                               fork_id |-> fork_id, found |-> i,
                               value |-> [fork_id |-> fork_id,
                                          delta |-> vforks'[i].validation.delta,
                                          validated |-> TRUE]]
    /\ UNCHANGED <<auto_evolve, triangle_fork_depth, circle_alpha, cycle_count,
                   pending_validations, sys_pc>>
    /\ UNCHANGED <<selVars, ctlVars>>

\* compute_fork_curvature(fork, context_forks) called directly
CallComputeForkCurvature(fork, context_forks) ==
    /\ sys_pc = "idle"
    /\ pc = "idle"
    /\ sys_out' = [status |-> "returned", op |-> "compute_fork_curvature",
                   fork |-> fork, context_forks |-> context_forks,
                   value |-> compute_fork_curvature(fork, context_forks)]
    /\ UNCHANGED <<auto_evolve, triangle_fork_depth, circle_alpha, cycle_count,
                   pending_validations, sys_pc>>
    /\ UNCHANGED <<selVars, ctlVars, valVars>>

----------------------------------------------------------------------------
(* Inputs and initial states of the system model                           *)

MaxCycles == 2         \* process() calls explored under SpecSystem
MaxOutcomeCalls == 2   \* validate_outcome() calls explored under SpecSystem

NoSignals == Signals(0, 0, 0, 0, 0, 0, 0, 0, 0)

\* What one process() call draws from outside: the signal words of the three
\* fork texts and the three values of np.random.normal(0, 0.05).
QuietInput ==
    [signals |-> <<NoSignals, NoSignals, NoSignals>>,
     noise |-> <<RInt(0), RInt(0), RInt(0)>>]

ProcessInputs ==
    {QuietInput,
     [signals |-> <<Signals(1, 0, 0, 0, 1, 0, 1, 0, 1), NoSignals,
                    Signals(0, 1, 3, 2, 0, 2, 0, 2, 0)>>,
      noise |-> <<Rat(3, 10), Rat(-1, 20), Rat(-1, 2)>>]}

\* A fork whose fields are set directly, as a caller of
\* compute_fork_curvature may do.
RawFork(confidence, affect, predict) ==
    [NewFork(0, confidence) EXCEPT
        !.affective_state = [trust |-> affect[1], fear |-> affect[2],
                             urgency |-> affect[3], satisfaction |-> affect[4],
                             frustration |-> affect[5]],
        !.predictive_vector = [risk |-> predict[1], reward |-> predict[2],
                               volatility |-> predict[3], stability |-> predict[4]]]

\* Forks for the direct calls: the defaults, one of high internal tension,
\* and two with fields outside [0, 1].
CurvaturePool ==
    {NewFork(0, Rat(1, 2)),
     RawFork(Rat(1, 2),
             <<Rat(1, 10), Rat(9, 10), Rat(3, 10), Rat(6, 10), Rat(9, 10)>>,
             <<Rat(9, 10), Rat(1, 10), Rat(3, 10), Rat(8, 10)>>),
     RawFork(RInt(4),
             <<RInt(3), RInt(5), RInt(2), RInt(0), RInt(3)>>,
             <<RInt(4), RInt(2), RInt(3), RInt(0)>>),
     RawFork(RInt(1),
             <<RInt(0), RInt(0), RInt(2), RInt(0), RInt(0)>>,
             <<RInt(1), RInt(1), RInt(-3), RInt(0)>>)}

\* context_forks arguments of the direct calls
ContextLists == {<<>>} \cup {<<f>> : f \in CurvaturePool}

\* actual_outcome argument of validate_outcome(): the one of
\* tests/test_system.py
SystemOutcomes ==
    {[risk |-> Rat(3, 10), reward |-> Rat(7, 10), sentiment_quality |-> Rat(4, 5),
      harm |-> Rat(1, 10)]}

MaxCadenceCycles == 10 \* process() calls explored under SpecCadence

\* fork_depth arguments of NO3SYS(fork_depth=...)
ForkDepthChoices == {0, 1, 3}

\* Draw lists for OrderA under which the fork_depth step, one up or one
\* down, is the only candidate with a positive expected improvement.
GrowDraws ==
    <<[delta |-> RInt(0), ei |-> RInt(0)],
      [delta |-> RInt(0), ei |-> RInt(0)],
      [delta |-> 1, ei |-> Rat(1, 20)],
      [delta |-> RInt(0), ei |-> RInt(0)],
      [delta |-> RInt(0), ei |-> RInt(0)]>>

ShrinkDraws ==
    <<[delta |-> RInt(0), ei |-> RInt(0)],
      [delta |-> RInt(0), ei |-> RInt(0)],
      [delta |-> -1, ei |-> Rat(1, 20)],
      [delta |-> RInt(0), ei |-> RInt(0)],
      [delta |-> RInt(0), ei |-> RInt(0)]>>

\* rng streams of the auto-evolutions: fork_depth one up, fork_depth one down
CadenceDraws == {GrowDraws, ShrinkDraws}

\* NO3SYS(user_id, fork_depth=fd, auto_evolve=ae)
InitCadence ==
    /\ InitController(Rat(8, 10), OrderA)
    /\ InitSelection(<<>>, Rat(8, 10))
    /\ InitValidator(<<>>)
    /\ \E ae \in BOOLEAN, fd \in ForkDepthChoices : InitSystem(ae, fd)

\* InfiniGen() with the default kappa_max
InitBaseline ==
    /\ InitController(Rat(8, 10), OrderA)
    /\ InitSelection(<<>>, Rat(8, 10))
    /\ InitValidator(<<>>)
    /\ InitSystem(TRUE, 3)

\* NO3SYS(user_id, auto_evolve=False)
InitNO3SYS ==
    /\ InitController(Rat(8, 10), OrderA)
    /\ InitSelection(<<>>, Rat(8, 10))
    /\ InitValidator(<<>>)
    /\ InitSystem(FALSE, 3)

----------------------------------------------------------------------------
(* Specifications                                                          *)

Evolve ==
    /\ generation < MaxGen
    /\ \E o \in OutcomeInputs, d \in DrawLists(mutable_order) : EvolveBegin(o, d)

EvolveDeep ==
    /\ generation < MaxGenDeep
    /\ EvolveBegin(<<>>, DeepDraws)

RollbackAny == Rollback /\ UNCHANGED rollbacks

RollbackCounted ==
    /\ rollbacks < MaxRollbacks
    /\ Rollback
    /\ rollbacks' = rollbacks + 1

\* evolve() calls made before the first rollback().
EvolveDrain ==
    /\ generation < MaxGenDeep
    /\ rollback_out = NoCall
    /\ EvolveBegin(<<>>, DeepDraws)

\* Consecutive rollback() calls, up to the first one that finds the stack empty.
RollbackDrain ==
    /\ rollback_out.status # "returned_none"
    /\ Rollback
    /\ rollbacks' = rollbacks + 1

Validate ==
    /\ validate_calls < MaxValidations
    /\ \E i \in 1..Len(vforks), o \in ActualOutcomes : ValidateFork(i, o)

Observe == \E o \in ObserveInputs : CallObserve(o)

Gate == \E i \in 1..Len(forks) : CallEthicalGate(i)

Select == CallSelectBestFork

Next == Evolve \/ TestCandidate \/ DeployBest \/ RollbackAny

NextDeep == EvolveDeep \/ TestCandidate \/ DeployBest \/ RollbackCounted

NextSelect == Gate \/ Select

NextDrain == EvolveDrain \/ TestCandidate \/ DeployBest \/ RollbackDrain

NextValidate == Validate \/ CallDetectBias \/ CallCurvatureEffectiveness

NextApi ==
    \/ Evolve \/ TestCandidate \/ DeployBest
    \/ Observe \/ CallNormalizeReasoning \/ CallNormalizeRetrieval

ProcessCall ==
    /\ cycle_count < MaxCycles
    /\ \E inp \in ProcessInputs : Process(inp, DeepDraws)

ValidateOutcomeCall ==
    /\ validate_calls < MaxOutcomeCalls
    /\ \E fork_id \in 0..(Len(vforks) + 1), o \in SystemOutcomes :
           ValidateOutcome(fork_id, o)

ComputeForkCurvatureCall ==
    \E f \in CurvaturePool, ctx \in ContextLists : CallComputeForkCurvature(f, ctx)

EvolveWeights ==
    /\ generation < MaxGenThreads
    /\ EvolveBegin(<<>>, WeightDraws)

NextThreads ==
    \/ EvolveWeights \/ TestCandidate
    \/ DeploySetattr \/ DeployNormalizeReasoning \/ DeployNormalizeRetrieval
    \/ DeployLog \/ DeployReturn
    \/ Read

EvolveRecords ==
    /\ generation < MaxGenBaseline
    /\ \E o \in OutcomeInputs \cup {<<ValidatedOutcomeB>>}, d \in {WeightDraws, NoDraws} :
           EvolveBegin(o, d)

ObserveEmpty == CallObserve(<<>>)

NextBaseline == EvolveRecords \/ TestCandidate \/ DeployBest \/ ObserveEmpty

NextStatus ==
    EvolveDeep \/ TestCandidate \/ DeployBest \/ RollbackCounted \/ CallStatus

Hypothesize == \E d \in DrawLists(mutable_order) : CallHypothesize(d)

NextHypothesize == EvolveDeep \/ TestCandidate \/ DeployBest \/ Hypothesize

ProcessCadence ==
    /\ cycle_count < MaxCadenceCycles
    /\ \E d \in CadenceDraws : Process(QuietInput, d)

NextCadence == ProcessCadence \/ TestCandidate \/ DeployBest \/ ProcessSync

NextSystem == ProcessCall \/ ValidateOutcomeCall

NextCurvature == ProcessCall \/ ComputeForkCurvatureCall

\* The controller under the wide rng draws.
Spec == Init /\ [][Next]_vars

\* The controller over many generations, under one rng draw list.
SpecDeep == InitDeep /\ [][NextDeep]_vars

\* The pure functions of curvature.py applied to drawn batches.
SpecSelect == InitSelect /\ [][NextSelect]_vars

\* A run of evolve() calls followed by rollback() calls until the stack is empty.
SpecDrain == InitDeep /\ [][NextDrain]_vars

\* TemporalValidator driven with the forks of VForkPool.
SpecValidate == InitValidate /\ [][NextValidate]_vars

\* The controller built on chosen parameter sets, with direct calls of
\* observe() and of the two normalize methods between evolve() calls.
SpecApi == InitApi /\ [][NextApi]_vars

\* evolve() run statement by statement through its deploy branch, with a
\* second thread reading the controller at any point.
SpecThreads == InitDeep /\ [][NextThreads]_vars

\* evolve() cycles on varying outcome records, deploying or not, with
\* observe([]) calls between them.
SpecBaseline == InitBaseline /\ [][NextBaseline]_vars

\* The controller over many generations with rollbacks, and status() calls
\* between them.
SpecStatus == InitDeep /\ [][NextStatus]_vars

\* evolve() cycles with direct calls of hypothesize() between them.
SpecHypothesize == InitDeep /\ [][NextHypothesize]_vars

\* NO3SYS without auto-evolution: process() and validate_outcome() calls.
SpecSystem == InitNO3SYS /\ [][NextSystem]_vars

\* process() cycles alone, with and without auto-evolution, for several
\* constructor fork depths.
SpecCadence == InitCadence /\ [][NextCadence]_vars

\* process() cycles and direct calls of compute_fork_curvature.
SpecCurvature == InitNO3SYS /\ [][NextCurvature]_vars

----------------------------------------------------------------------------
(* Properties of curvature.py, checked under SpecSelect                    *)

\* x < y, stated through the sign of the difference.
Below(x, y) == RSub(y, x)[1] > 0

PassingIdx == {i \in 1..Len(forks) : Below(forks[i].curvature, sel_kappa_max)}

\* C1: for a non-empty batch, select_best_fork returns a fork with curvature
\* strictly below kappa_max whenever the batch holds one; when none passes
\* the gate, the returned fork's curvature is the minimum over the whole batch.
C1_GatePassingOrGlobalMinimum ==
    (best_out.status # "none" /\ forks # <<>>) =>
        /\ best_out.status = "returned"
        /\ PassingIdx # {} => Below(forks[best_out.idx].curvature, sel_kappa_max)
        /\ PassingIdx = {} =>
              \A j \in 1..Len(forks) :
                  ~Below(forks[j].curvature, forks[best_out.idx].curvature)

\* C1 witness: every fork of a batch of different curvatures fails the gate
\* and the fallback returned one that is not the first of the batch.
C1_Witness ==
    /\ best_out.status = "returned"
    /\ Len(forks) >= 2
    /\ PassingIdx = {}
    /\ best_out.idx # 1
    /\ \E j \in 1..Len(forks) : forks[j].curvature # forks[best_out.idx].curvature

\* C8: ethical_gate(fork, kappa_max) is true exactly when
\* fork.curvature < kappa_max; it is false when kappa_max equals the curvature.
C8_GateIsStrict ==
    gate_out.status = "returned" =>
        /\ gate_out.value \in BOOLEAN
        /\ gate_out.value = TRUE <=> Below(forks[gate_out.idx].curvature, sel_kappa_max)
        /\ forks[gate_out.idx].curvature = sel_kappa_max => gate_out.value = FALSE

\* C8 witness: the gate was asked about a fork whose curvature equals kappa_max.
C8_Witness ==
    /\ gate_out.status = "returned"
    /\ forks[gate_out.idx].curvature = sel_kappa_max
    /\ gate_out.value = FALSE

\* C9: when some fork passes the gate, the returned fork passes the gate, no
\* gate-passing fork has a higher score(), and every gate-passing fork before
\* it in the input has a strictly lower score().
C9_BestScoreFirstOnTies ==
    (best_out.status # "none" /\ PassingIdx # {}) =>
        /\ best_out.status = "returned"
        /\ best_out.idx \in PassingIdx
        /\ \A j \in PassingIdx :
              /\ ~Below(score(forks[best_out.idx]), score(forks[j]))
              /\ j < best_out.idx => Below(score(forks[j]), score(forks[best_out.idx]))

\* C9 witness: two gate-passing forks share the best gated score, a fork that
\* fails the gate scores higher than both, and the first of the two was returned.
C9_Witness ==
    /\ best_out.status = "returned"
    /\ best_out.idx \in PassingIdx
    /\ \E j \in PassingIdx :
          /\ j > best_out.idx
          /\ score(forks[j]) = score(forks[best_out.idx])
          /\ forks[j] # forks[best_out.idx]
    /\ \E j \in (1..Len(forks)) \ PassingIdx :
          Below(score(forks[best_out.idx]), score(forks[j]))

\* C10: select_best_fork raises exactly on the empty batch; on every
\* non-empty batch it returns a member of the batch, and the batch is as it
\* was passed in.
C10_RaisesOnlyOnEmptyBatch ==
    best_out.status # "none" =>
        /\ best_out.status = "raised" <=> forks_in = <<>>
        /\ forks_in # <<>> =>
              /\ best_out.status = "returned"
              /\ best_out.idx \in 1..Len(forks_in)
        /\ forks = forks_in

\* C10 witness: a batch of three forks that all fail the gate got a fork back.
C10_Witness ==
    /\ best_out.status = "returned"
    /\ Len(forks_in) = 3
    /\ \A i \in 1..Len(forks) : ~Below(forks[i].curvature, sel_kappa_max)
    /\ best_out.idx \in 1..3

----------------------------------------------------------------------------
(* Properties of InfiniGen                                                 *)

IsSuffix(s, t) ==
    /\ Len(s) <= Len(t)
    /\ \A i \in 1..Len(s) : s[i] = t[Len(t) - Len(s) + i]

\* The projected curvature of candidate c's trial configuration is >= kappa_max.
TrialRejected(c) ==
    ~Below(compute_mutation_curvature([params EXCEPT ![c.name] = c.new_val]), kappa_max)

\* C2: after every evolve() call returns, the projected curvature of the
\* live parameter set is strictly below the controller's kappa_max.
C2_LiveCurvatureBelowKappaMax ==
    (pc = "idle" /\ generation > 0 /\ rollback_out.status = "none") =>
        Below(compute_mutation_curvature(params), kappa_max)

\* C3: a rollback() that returns a parameter set leaves the live parameters
\* equal to the parameters as they were at the entry of the most recent
\* evolve() not yet rolled back; successive rollbacks walk back through the
\* earlier evolve() calls one by one.
C3_RollbackRestoresEntryParams ==
    rollback_out.status = "returned" =>
        /\ params = undone
        /\ rollback_out.value = undone

\* C3 witness: three evolves, then two rollbacks in a row; the second one
\* restored the parameters the second evolve() was called with.
C3_Witness ==
    /\ rollback_out.status = "returned"
    /\ generation = 3
    /\ rollbacks = 2
    /\ Len(rollback_stack) = 1
    /\ params # DefaultParams
    /\ params = undone

\* C4: the step that enters evolve() raises the generation by exactly one
\* and pushes one snapshot equal to the live parameters at call time; no
\* other step of evolve() and no rollback() changes the generation.
C4_GenerationAndSnapshot ==
    [][/\ generation' >= generation
       /\ (pc = "idle" /\ pc' # "idle") =>
             /\ generation' = generation + 1
             /\ rollback_stack' # <<>>
             /\ rollback_stack'[Len(rollback_stack')] = params
             /\ \/ rollback_stack' = Append(rollback_stack, params)
                \/ /\ Len(rollback_stack) = 10
                   /\ rollback_stack' = Append(Tail(rollback_stack), params)
       /\ ~(pc = "idle" /\ pc' # "idle") => generation' = generation
       /\ pc # "idle" => rollback_stack' = rollback_stack]_vars

\* C4 witness: a fresh controller with kappa_max = 0.8 after one evolve([]).
C4_Witness ==
    /\ pc = "idle"
    /\ kappa_max = Rat(8, 10)
    /\ generation = 1
    /\ rollbacks = 0
    /\ rollback_stack = <<DefaultParams>>

\* C5: the rollback stack never holds more than 10 snapshots, and it always
\* holds, oldest first, the entry parameters of the most recent evolve()
\* calls that were not rolled back.
C5_StackBoundedMostRecent ==
    /\ Len(rollback_stack) <= 10
    /\ IsSuffix(rollback_stack, pre_params)

\* C5 witness: the eleventh evolve() evicted the oldest snapshot.
C5_Witness ==
    /\ Len(pre_params) = 11
    /\ Len(rollback_stack) = 10
    /\ rollback_stack[1] = pre_params[2]
    /\ pre_params[1] # pre_params[2]
    /\ rollback_stack[10] = pre_params[11]

\* C6: an iteration of the test loop never changes the live parameters; it
\* appends exactly one rejected_curvature record with accepted = FALSE when
\* the trial configuration's projected curvature is >= kappa_max and nothing
\* otherwise; and the mutation deployed at the end is not a rejected candidate.
C6_RejectedLoggedNeverApplied ==
    [][/\ pc = "test" =>
             /\ params' = params
             /\ params = params_at_call
             /\ IF TrialRejected(candidates[cand_i])
                THEN /\ Len(history') = Len(history) + 1
                     /\ SubSeq(history', 1, Len(history)) = history
                     /\ LET r == history'[Len(history')]
                            c == candidates[cand_i]
                        IN  /\ r.mutation_type = "rejected_curvature"
                            /\ r.accepted = FALSE
                            /\ r.generation = generation
                            /\ r.parameter_changed = c.name
                            /\ r.new_value = c.new_val
                            /\ r.old_value = params[c.name]
                            /\ r.expected_improvement = c.ei
                ELSE history' = history
       /\ pc = "deploy" =>
             /\ params = params_at_call
             /\ Len(history') > Len(history) =>
                   \E i \in 1..Len(candidates) :
                       /\ candidates[i].name = history'[Len(history')].parameter_changed
                       /\ ~TrialRejected(candidates[i])
             /\ \A i \in 1..Len(candidates) :
                   (TrialRejected(candidates[i]) /\ candidates[i].name \in IntParams) =>
                       params'[candidates[i].name] = params[candidates[i].name]]_vars

\* C6 witness: the loop has logged a rejected candidate of this generation
\* whose value differs from the live one, and the live parameters are as
\* they were when evolve() was called.
C6_Witness ==
    /\ pc = "deploy"
    /\ params = params_at_call
    /\ \E i \in 1..Len(history) :
          /\ history[i].generation = generation
          /\ history[i].mutation_type = "rejected_curvature"
          /\ history[i].accepted = FALSE
          /\ history[i].new_value # history[i].old_value
    /\ best_mutation # None

Survivors == {i \in 1..Len(candidates) : ~TrialRejected(candidates[i])}

\* The earliest survivor whose expected improvement is positive and maximal.
Winners ==
    {i \in Survivors :
        /\ candidates[i].ei[1] > 0
        /\ \A j \in Survivors :
              /\ ~Below(candidates[i].ei, candidates[j].ei)
              /\ j < i => Below(candidates[j].ei, candidates[i].ei)}

\* C7: the end of an evolve() cycle deploys the earliest gate-surviving
\* candidate of maximal expected improvement and logs it as accepted; when
\* no survivor has a positive expected improvement the live parameters and
\* the history stay as they are.
C7_DeploysEarliestBestSurvivor ==
    [][pc = "deploy" =>
          IF Winners = {}
          THEN params' = params /\ history' = history
          ELSE LET w == candidates[CHOOSE i \in Winners : TRUE]
                   r == history'[Len(history')]
               IN  /\ Len(history') = Len(history) + 1
                   /\ r.accepted = TRUE
                   /\ r.mutation_type = "accepted"
                   /\ r.parameter_changed = w.name
                   /\ r.new_value = w.new_val
                   /\ r.expected_improvement = w.ei
                   /\ \A n \in {"risk_tolerance", "alpha", "fear_weight",
                               "trust_weight", "fork_depth", "forecast_horizon"} :
                         params'[n] = IF n = w.name THEN w.new_val ELSE params[n]]_vars

\* C7 witness: at the end of the loop two survivors tie on the best expected
\* improvement, a rejected candidate that came before both has the same
\* one, a survivor has a lower positive one, and the running best is the
\* earlier of the two.
C7_Witness ==
    /\ pc = "deploy"
    /\ best_mutation # None
    /\ \E i \in Survivors, j \in Survivors :
          /\ i < j
          /\ candidates[i].ei = candidates[j].ei
          /\ best_mutation = candidates[i]
          /\ \E r \in (1..Len(candidates)) \ Survivors :
                r < i /\ candidates[r].ei = best_improvement
    /\ \E i \in Survivors :
          candidates[i].ei[1] > 0 /\ Below(candidates[i].ei, best_improvement)

----------------------------------------------------------------------------
(* Properties of the accepted record, checked under Spec                   *)

\* A step of evolve() that logs an accepted record.
DeployStep == pc = "deploy" /\ Len(history') = Len(history) + 1

\* C11: the accepted record logged by evolve() carries actual_improvement =
\* the deployed candidate's expected_improvement minus the performance
\* baseline the controller held when evolve() was called, whatever outcome
\* records were passed in.
C11_ActualImprovementFromBaselineAtCall ==
    [][DeployStep =>
         LET r == history'[Len(history')]
         IN  /\ r.accepted
             /\ r.expected_improvement = best_mutation.ei
             /\ r.actual_improvement =
                    RSub(best_mutation.ei, performance_baseline)]_vars

----------------------------------------------------------------------------
(* Properties of observe() and of the normalize methods, under SpecApi     *)

\* The validated records of an input, and the score of one of them.
ValidatedOf(records) ==
    SelectSeq(records, LAMBDA r : "validated" \in DOMAIN r /\ r.validated)

ScoreOf(r) ==
    RSub(r.delta.sentiment_accuracy,
         RMul(Rat(1, 2), RAdd(RAbs(r.delta.risk_error), RAbs(r.delta.reward_error))))

ObserveReturned == api_out.status = "returned" /\ api_out.op = "observe"

\* C12: observe(records) returns the current baseline when records is empty
\* or holds no validated record, and otherwise the mean over the validated
\* records of sentiment_accuracy - 0.5*(|risk_error| + |reward_error|); it
\* returns normally and leaves the baseline and the controller state alone.
C12_ObserveBaselineOrValidatedMean ==
    [][(api_out' # api_out /\ ObserveReturned') =>
         LET v == ValidatedOf(api_out'.arg)
             out == api_out'.value
         IN  /\ UNCHANGED <<params, kappa_max, generation, history,
                            performance_baseline, rollback_stack>>
             /\ IF v = <<>>
                THEN out = performance_baseline
                ELSE RMul(out, RInt(Len(v))) =
                        RSum([i \in 1..Len(v) |-> ScoreOf(v[i])])]_vars

\* An input of unvalidated records only, observed on a baseline that an
\* earlier evolve() moved away from its initial value.
C12_Witness ==
    /\ ObserveReturned
    /\ api_out.arg # <<>>
    /\ ValidatedOf(api_out.arg) = <<>>
    /\ performance_baseline = Rat(4, 5)
    /\ api_out.value = Rat(4, 5)

----------------------------------------------------------------------------
(* rollback() on an empty stack, checked under SpecDrain                   *)

\* C13: rollback() on an empty rollback stack returns no result and leaves
\* the parameters, the stack, the generation, the baseline and the history
\* unchanged; this is the (n+1)-th consecutive rollback after n <= 10
\* evolves and the 11th consecutive rollback after more than 10 evolves.
C13_RollbackOnEmptyStackIsNoOp ==
    [][(pc = "idle" /\ rollbacks' # rollbacks /\ rollback_stack = <<>>) =>
         /\ rollback_out'.status = "returned_none"
         /\ rollbacks = IF generation <= MaxStack THEN generation ELSE MaxStack
         /\ UNCHANGED <<params, rollback_stack, generation, performance_baseline,
                        history, kappa_max>>]_vars

\* The 11th consecutive rollback after more than 10 evolves has returned.
C13_Witness ==
    /\ generation > MaxStack
    /\ rollbacks = MaxStack + 1
    /\ rollback_out.status = "returned_none"
    /\ rollback_stack = <<>>
    /\ params # DefaultParams

----------------------------------------------------------------------------
(* The mutation whitelist, checked under Spec                              *)

\* C14: hypothesize() returns at most 5 candidates, each naming a whitelist
\* field; every field of the live parameters that evolve() or rollback()
\* changes is a whitelist field; kappa_max, both as the controller's
\* threshold and as the parameter field, is never changed.
C14_OnlyWhitelistFieldsChange ==
    [][/\ kappa_max' = kappa_max
       /\ params'.kappa_max = params.kappa_max
       /\ \A f \in DOMAIN params : params'[f] # params[f] => f \in mutable_params
       /\ (pc = "idle" /\ pc' # "idle") =>
             /\ Len(candidates') <= MaxCandidates
             /\ \A i \in 1..Len(candidates') :
                    candidates'[i].name \in mutable_params]_vars

\* An evolve() has deployed a mutation and the normalization that follows
\* it has also changed a field other than the mutated one.
C14_Witness ==
    /\ pc = "idle"
    /\ rollback_out = NoCall
    /\ history # <<>>
    /\ history[Len(history)].accepted
    /\ \E f \in mutable_params \ {history[Len(history)].parameter_changed} :
          params[f] # params_at_call[f]

----------------------------------------------------------------------------
(* Normalization of the weights, checked under SpecApi                     *)

ReasoningSum(p) == RAdd(RAdd(p.deductive_weight, p.inductive_weight), p.abductive_weight)

RetrievalSum(p) == RAdd(p.vector_search_weight, p.graph_search_weight)

NormalizeReturned(op) == api_out.status = "returned" /\ api_out.op = op

\* The last evolve() deployed a mutation and nothing was called since.
DeployedAndIdle ==
    /\ pc = "idle"
    /\ api_out = NoCall
    /\ history # <<>>
    /\ history[Len(history)].accepted
    /\ history[Len(history)].generation = generation

NonNegative(x) == ~Below(x, RInt(0))

\* C15 (as stated): for any weight values, the three reasoning weights sum to
\* 1 after normalize_reasoning_weights() and the two retrieval weights sum
\* to 1 after normalize_retrieval_weights(); both sums are 1 in the live
\* parameters after every evolve() that deploys a mutation.
C15_SumsAreOneForAnyWeights ==
    /\ NormalizeReturned("normalize_reasoning") =>
          ReasoningSum(api_out.after) = RInt(1)
    /\ NormalizeReturned("normalize_retrieval") =>
          RetrievalSum(api_out.after) = RInt(1)
    /\ DeployedAndIdle =>
          ReasoningSum(params) = RInt(1) /\ RetrievalSum(params) = RInt(1)

\* C15 (amended): a normalize method makes its weights sum to 1 when their
\* sum before the call is positive and leaves them as they are otherwise;
\* both sums are 1 after every evolve() that deploys a mutation on
\* parameters whose five weights were non-negative with positive sums when
\* evolve() was called.
C15_SumsAreOneForPositiveTotals ==
    /\ NormalizeReturned("normalize_reasoning") =>
          IF Below(RInt(0), ReasoningSum(api_out.before))
          THEN ReasoningSum(api_out.after) = RInt(1)
          ELSE api_out.after = api_out.before
    /\ NormalizeReturned("normalize_retrieval") =>
          IF Below(RInt(0), RetrievalSum(api_out.before))
          THEN RetrievalSum(api_out.after) = RInt(1)
          ELSE api_out.after = api_out.before
    /\ (/\ DeployedAndIdle
        /\ \A f \in {"deductive_weight", "inductive_weight", "abductive_weight",
                      "vector_search_weight", "graph_search_weight"} :
              NonNegative(params_at_call[f])
        /\ Below(RInt(0), ReasoningSum(params_at_call))
        /\ Below(RInt(0), RetrievalSum(params_at_call)))
       => ReasoningSum(params) = RInt(1) /\ RetrievalSum(params) = RInt(1)

\* normalize_reasoning_weights() has rescaled weights that summed to 3/2.
C15_Witness ==
    /\ NormalizeReturned("normalize_reasoning")
    /\ ReasoningSum(api_out.before) = Rat(3, 2)
    /\ api_out.after.deductive_weight = Rat(1, 3)
    /\ ReasoningSum(api_out.after) = RInt(1)

----------------------------------------------------------------------------
(* The evolution history, checked under SpecDeep                           *)

\* C16: the history is append-only across evolve() and rollback(): its
\* length never decreases, the entries already logged keep all their
\* fields, and rollback() neither removes, alters nor adds an entry.
C16_HistoryAppendOnly ==
    [][/\ Len(history') >= Len(history)
       /\ SubSeq(history', 1, Len(history)) = history
       /\ rollbacks' # rollbacks => history' = history]_vars

\* A rollback() has undone the mutation of the latest evolve(), which is
\* still logged as accepted after earlier records.
C16_Witness ==
    /\ rollback_out.status = "returned"
    /\ Len(history) > 1
    /\ history[Len(history)].accepted
    /\ history[Len(history)].generation = generation
    /\ params[history[Len(history)].parameter_changed] =
          history[Len(history)].old_value
    /\ params[history[Len(history)].parameter_changed] #
          history[Len(history)].new_value

----------------------------------------------------------------------------
(* Properties of TemporalValidator, checked under SpecValidate             *)

ValidateReturned == val_out.status = "returned" /\ val_out.op = "validate_fork"

Has(d, key) == key \in DOMAIN d

\* C17: validate_fork records risk_error = actual risk - predicted risk,
\* reward_error = actual reward - predicted reward, and sentiment_accuracy =
\* 1 - |actual sentiment_quality - (trust + satisfaction)/2|.
C17_DeltaIsActualMinusPredicted ==
    ValidateReturned =>
        LET fork == vforks[val_out.idx]
            actual == val_out.arg
            delta == val_out.value.delta
            predicted_sentiment ==
                RMul(Rat(1, 2), RAdd(fork.affective_state.trust,
                                     fork.affective_state.satisfaction))
        IN  /\ fork.validation = val_out.value
            /\ Has(actual, "risk") =>
                  delta.risk_error = RSub(actual.risk, fork.predictive_vector.risk)
            /\ Has(actual, "reward") =>
                  delta.reward_error = RSub(actual.reward, fork.predictive_vector.reward)
            /\ Has(actual, "sentiment_quality") =>
                  delta.sentiment_accuracy =
                      RSub(RInt(1), RAbs(RSub(actual.sentiment_quality,
                                              predicted_sentiment)))

\* The outcome of tests/test_system.py validated against the default fork:
\* risk_error 0.1, reward_error 0, sentiment_accuracy 0.75.
C17_Witness ==
    /\ ValidateReturned
    /\ val_out.idx = 1
    /\ {"risk", "reward", "sentiment_quality"} \subseteq DOMAIN val_out.arg
    /\ val_out.value.delta = [risk_error |-> Rat(1, 10), reward_error |-> RInt(0),
                              sentiment_accuracy |-> Rat(3, 4)]

\* C18: for each of risk, reward and sentiment_quality missing from
\* actual_outcome, validate_fork substitutes the fork's own prediction, so
\* the delta shows zero error for it: risk_error = 0, reward_error = 0,
\* sentiment_accuracy = 1.
C18_MissingFieldsGiveZeroError ==
    ValidateReturned =>
        LET actual == val_out.arg
            delta == val_out.value.delta
        IN  /\ ~Has(actual, "risk") => delta.risk_error = RInt(0)
            /\ ~Has(actual, "reward") => delta.reward_error = RInt(0)
            /\ ~Has(actual, "sentiment_quality") => delta.sentiment_accuracy = RInt(1)

DetectBiasReturned == val_out.status = "returned" /\ val_out.op = "detect_bias"

EffectivenessReturned ==
    val_out.status = "returned" /\ val_out.op = "curvature_effectiveness"

\* The logged harms of the entries recorded with curvature above (or not
\* above) 0.5.
HarmsOf(high) ==
    LET idx == {i \in 1..Len(curvature_outcome_log) :
                  Below(Rat(1, 2), curvature_outcome_log[i].curvature) = high}
        Total[S \in SUBSET idx] ==
            IF S = {} THEN RInt(0)
            ELSE LET i == CHOOSE j \in S : TRUE
                 IN  RAdd(curvature_outcome_log[i].actual_harm, Total[S \ {i}])
    IN  [n |-> Cardinality(idx), total |-> Total[idx]]

\* mean(high) > mean(low), for non-empty partitions, cross-multiplied.
HighMeanExceedsLow ==
    Below(RMul(HarmsOf(FALSE).total, RInt(HarmsOf(TRUE).n)),
          RMul(HarmsOf(TRUE).total, RInt(HarmsOf(FALSE).n)))

\* C20 (as stated): curvature_effectiveness() returns insufficient_data
\* exactly when fewer than 3 outcomes are logged; with 3 or more it reports
\* a boolean that is true exactly when the mean harm of the entries
\* recorded with curvature > 0.5 exceeds that of the other entries.
C20_EffectivenessIsBoolean ==
    EffectivenessReturned =>
        IF Len(curvature_outcome_log) < 3
        THEN val_out.value = [status |-> "insufficient_data"]
        ELSE /\ ~Has(val_out.value, "status")
             /\ val_out.value.curvature_signal_effective \in {PyBool(TRUE), PyBool(FALSE)}
             /\ val_out.value.curvature_signal_effective = PyBool(HighMeanExceedsLow)

\* C20 (amended): insufficient_data exactly when fewer than 3 outcomes are
\* logged; with 3 or more and both partitions non-empty the signal is a
\* boolean, true exactly when the mean harm of the high partition exceeds
\* that of the low one; with 3 or more and an empty partition it is None.
C20_EffectivenessBooleanOrNone ==
    EffectivenessReturned =>
        IF Len(curvature_outcome_log) < 3
        THEN val_out.value = [status |-> "insufficient_data"]
        ELSE /\ ~Has(val_out.value, "status")
             /\ val_out.value.curvature_signal_effective =
                    IF HarmsOf(TRUE).n > 0 /\ HarmsOf(FALSE).n > 0
                    THEN PyBool(HighMeanExceedsLow)
                    ELSE None

\* Three outcomes logged, one of high curvature with more harm than the
\* mean of the two others, one of which sits exactly at curvature 0.5.
C20_Witness ==
    /\ EffectivenessReturned
    /\ Len(curvature_outcome_log) = 3
    /\ HarmsOf(TRUE).n = 1
    /\ \E i \in 1..3 : curvature_outcome_log[i].curvature = Rat(1, 2)
    /\ val_out.value.curvature_signal_effective = PyBool(TRUE)

----------------------------------------------------------------------------
(* Properties of NO3SYS.validate_outcome, checked under SpecSystem         *)

\* The step is a call of validate_outcome().
ValidateOutcomeStep == Has(sys_out', "op") /\ sys_out'.op = "validate_outcome"

\* The positions in self._all_forks of the forks carrying the identifier.
ForksWithId(fork_id) == {i \in 1..Len(vforks) : vforks[i].fork_id = fork_id}

\* C21: validate_outcome(fork_id, outcome) with an identifier no process()
\* call produced returns an error result without raising and leaves the
\* validator's two logs, every fork's validation record and the controller
\* unchanged; with the identifier of a fork an earlier process() produced,
\* selected or not, it validates that fork and no other.
C21_ValidateOutcomeFindsEveryProducedFork ==
    [][ValidateOutcomeStep =>
          /\ sys_out'.status = "returned"
          /\ ForksWithId(sys_out'.fork_id) = {} =>
                /\ Has(sys_out'.value, "error")
                /\ validation_records' = validation_records
                /\ curvature_outcome_log' = curvature_outcome_log
                /\ vforks' = vforks
                /\ UNCHANGED ctlVars
          /\ \A i \in ForksWithId(sys_out'.fork_id) :
                /\ ~Has(sys_out'.value, "error")
                /\ sys_out'.value.validated
                /\ vforks'[i].validation = ValidationRecord(vforks[i], val_out'.arg)
                /\ sys_out'.value.delta = vforks'[i].validation.delta
                /\ Len(validation_records') = Len(validation_records) + 1
                /\ \A j \in (1..Len(vforks)) \ {i} : vforks'[j] = vforks[j]]_vars

\* C21 witness: a call with an unknown identifier returned the error result
\* after a fork that was not selected had been validated through its
\* identifier.
C21_Witness ==
    /\ sys_out.status = "returned"
    /\ sys_out.op = "validate_outcome"
    /\ Has(sys_out.value, "error")
    /\ \E i \in 1..Len(vforks) :
          /\ ~vforks[i].selected
          /\ vforks[i].validation.validated
          /\ \E j \in 1..Len(validation_records) :
                validation_records[j].fork_id = vforks[i].fork_id

----------------------------------------------------------------------------
(* Properties of compute_fork_curvature, checked under SpecCurvature       *)

\* lo <= x <= hi
Within(x, lo, hi) == ~Below(x, lo) /\ ~Below(hi, x)

\* A direct call of compute_fork_curvature has returned.
CurvatureReturned ==
    sys_out.status = "returned" /\ sys_out.op = "compute_fork_curvature"

\* C22: compute_fork_curvature returns a value in [0, 2] for every fork and
\* every context list, and after any number of process() cycles every
\* generated fork has a curvature in [0, 2] and a confidence in [0, 1].
C22_CurvatureAndConfidenceInRange ==
    /\ CurvatureReturned => Within(sys_out.value, RInt(0), RInt(2))
    /\ \A i \in 1..Len(vforks) :
          /\ Within(vforks[i].curvature, RInt(0), RInt(2))
          /\ Within(vforks[i].confidence, RInt(0), RInt(1))

\* C22 witness: after two process() cycles, one of which drew a confidence
\* noise that the clip cut to 1, a direct call on a fork whose unclipped
\* tension exceeds 2 returned 2.
C22_Witness ==
    /\ CurvatureReturned
    /\ sys_out.value = RInt(2)
    /\ Below(RInt(2), curvature_unclipped(sys_out.fork, sys_out.context_forks))
    /\ cycle_count = 2
    /\ \E i \in 1..Len(vforks) : vforks[i].confidence = RInt(1)
    /\ \E i \in 1..Len(vforks) : Below(RInt(0), vforks[i].curvature)

----------------------------------------------------------------------------
(* Determinism of hypothesize(), checked under SpecHypothesize             *)

HypothesizeReturned == api_out.status = "returned" /\ api_out.op = "hypothesize"

\* C23: the mutation proposal is determined by the controller and its random
\* source: hypothesize() has no seed argument and the controller holds no
\* random source, so two calls on equal parameters and equal controller
\* state are two calls with the same injected seed, and they return the
\* same candidate list.
C23_HypothesizeDeterministic ==
    [][(/\ HypothesizeReturned
        /\ HypothesizeReturned'
        /\ UNCHANGED <<params, mutable_order, kappa_max, generation, history,
                       performance_baseline, rollback_stack>>)
           => api_out'.value = api_out.value]_vars

----------------------------------------------------------------------------
(* Visibility of the steps of evolve(), checked under SpecThreads          *)

ReadReturned == api_out.status = "returned" /\ api_out.op = "read"

\* The parameters the cycle leaves when the mutation of record r is deployed
\* on the parameters p.
DeployedFrom(p, r) == deploy(p, [name |-> r.parameter_changed, new_val |-> r.new_value])

\* C24: an observer interleaved with evolve() sees the live parameters either
\* as they were when the cycle began, or with the winning mutation applied,
\* both weight groups re-normalized and the accepted record of that
\* generation in the log; never a mutation without its re-normalization or
\* without its log record.
C24_NoPartialStateObservable ==
    ReadReturned =>
        \/ api_out.params = api_out.entry
        \/ /\ api_out.history # <<>>
           /\ LET r == api_out.history[Len(api_out.history)]
              IN  /\ r.accepted
                  /\ r.generation = api_out.generation
                  /\ api_out.params = DeployedFrom(api_out.entry, r)
                  /\ ReasoningSum(api_out.params) = RInt(1)
                  /\ RetrievalSum(api_out.params) = RInt(1)

----------------------------------------------------------------------------
(* Cadence of the auto-evolution, checked under SpecCadence                *)

\* Some process() call has raised: the fork batch was empty.
ProcessRaised == Has(sys_out, "op") /\ sys_out.op = "process" /\ sys_out.status = "raised"

\* The generation follows the cycle count, and no step of process() has
\* called rollback(): the stack holds one snapshot per generation and the
\* live object is the one the constructor made.
CadenceHolds ==
    /\ auto_evolve => generation = cycle_count \div EvolveEvery
    /\ ~auto_evolve => generation = 0
    /\ rollback_out = NoCall
    /\ rollbacks = 0
    /\ Len(rollback_stack) = generation
    /\ params_id = 0

\* C25 as stated: with auto_evolve enabled the generation is floor(n / 5)
\* after n process() calls, with it disabled the generation stays 0, and
\* process() never calls rollback().
C25_GenerationIsCyclesOverFive == CadenceHolds

\* C25, amended: the same for a system whose triangle has a fork depth of at
\* least 1; with a fork depth of 0 or less every process() call raises
\* before phase 9 and the generation stays 0.
C25_GenerationIsCyclesOverFiveWithForks ==
    /\ triangle_fork_depth >= 1 => CadenceHolds /\ ~ProcessRaised
    /\ triangle_fork_depth < 1 =>
          /\ generation = 0
          /\ cycle_count > 0 => ProcessRaised

\* C25 witness: the tenth process() call of an auto-evolving system has
\* returned and its second evolution cycle is complete.
C25_Witness ==
    /\ auto_evolve
    /\ cycle_count = 10
    /\ generation = 2
    /\ sys_pc = "idle"
    /\ pc = "idle"
    /\ sys_out.status = "returned"

----------------------------------------------------------------------------
(* The performance baseline across cycles, checked under SpecBaseline      *)

\* The step is the return of evolve().
EvolveReturns == pc = "deploy" /\ pc' = "idle"

\* The step is the entry of an evolve([]) call.
EvolveEmptyEnters == pc = "idle" /\ pc' # "idle" /\ fork_outcomes_at_call' = <<>>

\* C26: when evolve(records) returns, whether or not it deployed a mutation,
\* the stored baseline is the value observe(records) gave in that cycle; a
\* following evolve([]) takes that value as its current performance and a
\* following observe([]) returns it.
C26_BaselineIsObservedPerformance ==
    [][/\ EvolveReturns =>
             performance_baseline' = observe(fork_outcomes_at_call, performance_baseline)
       /\ EvolveEmptyEnters => current_performance' = performance_baseline
       /\ (ObserveReturned' /\ api_out'.arg = <<>>) =>
             api_out'.value = performance_baseline]_vars

\* C26 witness: a cycle on a validated record deployed nothing and moved the
\* baseline off 0.5 to the observed 0.8; a later evolve([]) deployed and left
\* it there, and observe([]) then returned it.
C26_Witness ==
    /\ ObserveReturned
    /\ api_out.arg = <<>>
    /\ api_out.value = Rat(4, 5)
    /\ performance_baseline = Rat(4, 5)
    /\ generation >= 2
    /\ fork_outcomes_at_call = <<>>
    /\ \E g \in 1..generation :
          \A i \in 1..Len(history) : history[i].generation # g

----------------------------------------------------------------------------
(* Independence of the snapshots, checked under SpecDeep                   *)

\* The step writes the live parameter object and neither pushes nor pops.
LiveWrite == params' # params /\ stack_ids' = stack_ids /\ params_id' = params_id

\* C27: the snapshots on the rollback stack are independent of the live
\* parameter set: no two stack entries, and no stack entry and the live
\* set, are the same object, and no write to the live parameters changes a
\* snapshot on the stack.
C27_SnapshotsIndependentOfLiveParams ==
    [][/\ \A i \in 1..Len(stack_ids') : stack_ids'[i] # params_id'
       /\ \A i, j \in 1..Len(stack_ids') : i # j => stack_ids'[i] # stack_ids'[j]
       /\ Len(stack_ids') = Len(rollback_stack')
       /\ LiveWrite => rollback_stack' = rollback_stack]_vars

\* C27 witness: after a rollback made a popped snapshot the live object,
\* later cycles pushed snapshots and deployed onto it: the live set differs
\* from every snapshot on a stack of at least two.
C27_Witness ==
    /\ pc = "idle"
    /\ params_id # 0
    /\ Len(rollback_stack) >= 2
    /\ \A i \in 1..Len(rollback_stack) : rollback_stack[i] # params
    /\ history # <<>>
    /\ history[Len(history)].accepted

----------------------------------------------------------------------------
(* The mutation log and status(), checked under SpecStatus                 *)

StatusReturned == api_out.status = "returned" /\ api_out.op = "status"

AcceptedIn(g) == {i \in 1..Len(history) : history[i].accepted /\ history[i].generation = g}

\* C28: every generation has at most one accepted record; the generation of
\* every record lies between 1 and the current generation and never
\* decreases along the log; status() reports mutations_accepted +
\* mutations_rejected = len(history) and mutations_accepted <= generation.
C28_LogGenerationsAndStatusCounts ==
    /\ \A g \in 1..generation : Cardinality(AcceptedIn(g)) <= 1
    /\ \A i \in 1..Len(history) :
          /\ history[i].generation >= 1
          /\ history[i].generation <= generation
    /\ \A i, j \in 1..Len(history) :
          i < j => history[i].generation <= history[j].generation
    /\ StatusReturned =>
          /\ api_out.value.mutations_accepted + api_out.value.mutations_rejected
                 = Len(history)
          /\ api_out.value.mutations_accepted <= generation
          /\ api_out.value.generation = generation

\* C28 witness: status() returned after three generations and a rollback,
\* with accepted and rejected records in the log.
C28_Witness ==
    /\ StatusReturned
    /\ generation >= 3
    /\ rollbacks >= 1
    /\ api_out.value.mutations_accepted >= 2
    /\ api_out.value.mutations_rejected >= 1

----------------------------------------------------------------------------
(* The values of the accepted record, checked under Spec                   *)

ReasoningWeights == {"deductive_weight", "inductive_weight", "abductive_weight"}

RetrievalWeights == {"vector_search_weight", "graph_search_weight"}

\* The accepted record a deploy step appends, and the snapshot its cycle pushed.
AcceptedRecord == history'[Len(history')]

CycleSnapshot == rollback_stack'[Len(rollback_stack')]

\* The sum of the weight group of name once value is written to name in p;
\* 1 for a parameter outside both groups.
GroupSumAfterWrite(p, name, value) ==
    IF name \in ReasoningWeights THEN ReasoningSum([p EXCEPT ![name] = value])
    ELSE IF name \in RetrievalWeights THEN RetrievalSum([p EXCEPT ![name] = value])
    ELSE RInt(1)

\* C29 as stated: the accepted record's old_value is the named parameter's
\* value in the snapshot pushed by the same cycle, and its new_value is the
\* named parameter's value in the live set when evolve() returns, for every
\* whitelisted parameter.
C29_RecordValuesAreSnapshotAndLive ==
    [][DeployStep =>
          /\ AcceptedRecord.old_value = CycleSnapshot[AcceptedRecord.parameter_changed]
          /\ AcceptedRecord.new_value = params'[AcceptedRecord.parameter_changed]]_vars

\* C29, amended: old_value is the named parameter's value in the snapshot
\* of the same cycle; new_value is the candidate value written before the
\* re-normalization.  The live value at the return equals new_value for a
\* parameter outside the two weight groups (or when the group sums to 1
\* after the write); for a reasoning or retrieval weight it is new_value
\* divided by the sum its group has after the write.
C29_RecordValuesAreSnapshotAndCandidate ==
    [][DeployStep =>
          LET r == AcceptedRecord
              name == r.parameter_changed
              total == GroupSumAfterWrite(params, name, r.new_value)
          IN  /\ r.old_value = CycleSnapshot[name]
              /\ r.new_value = best_mutation.new_val
              /\ name \in mutable_params
              /\ name \notin (ReasoningWeights \cup RetrievalWeights) =>
                    params'[name] = r.new_value
              /\ (name \in (ReasoningWeights \cup RetrievalWeights)
                    /\ Below(RInt(0), total)) =>
                    params'[name] = RDiv(r.new_value, total)]_vars

\* C29 witness: the last cycle deployed a reasoning weight; the record's
\* old_value is the snapshot's value and its new_value is not the live value.
C29_Witness ==
    /\ pc = "idle"
    /\ history # <<>>
    /\ rollback_stack # <<>>
    /\ LET r == history[Len(history)]
       IN  /\ r.accepted
           /\ r.generation = generation
           /\ r.parameter_changed \in ReasoningWeights
           /\ r.old_value = rollback_stack[Len(rollback_stack)][r.parameter_changed]
           /\ r.new_value # params[r.parameter_changed]
           /\ r.new_value # r.old_value

----------------------------------------------------------------------------
(* The fork batch of process(), checked under SpecCadence                  *)

\* The step is a process() call, up to its evolution phase.
ProcessStep == cycle_count' = cycle_count + 1

\* min(fork_depth, 3)
BatchSize(fork_depth) == IF fork_depth < 3 THEN fork_depth ELSE 3

\* The forks of the batch marked selected.
SelectedIn(batch) == {i \in 1..Len(batch) : batch[i].selected}

====
